---- MODULE Spec2Model ----
(***************************************************************************)
(* A model of PiBeat's lowering pass (audio/parser.rs), dispatch scheduler *)
(* (lib.rs: run_code, schedule_samples_with_timing, stop_audio), mixer     *)
(* command channel (audio/engine.rs) and recorder (audio/recorder.rs).     *)
(*                                                                         *)
(* Time offsets are f32 seconds in the source.  Here they are integer      *)
(* ticks of half a second, so that a beat lasts 120 \div bpm ticks (the    *)
(* source's 60.0 / bpm seconds) for the tempi 60 and 120.  Floating-point  *)
(* rounding of the summed offsets is not modelled.                         *)
(***************************************************************************)
EXTENDS Integers, Sequences, FiniteSets, TLC

VARIABLES
    \* ---- lowering (commands_to_audio's locals, parser.rs:2556-2565) ----
    parsed,        \* the command list being lowered
    pos,           \* index of the next command of `parsed` (the for loop)
    result,        \* Vec<(f32, AudioCommand)> built so far
    time_offset,   \* the running clock
    current_bpm,
    fx,            \* current_reverb .. current_hpf
    \* ---- dispatch (AppState, lib.rs:27-38, and the threads run_code spawns) ----
    session_id,    \* AppState.session_id
    use_sc,        \* AppState.use_sc
    sc_engine,     \* AppState.sc_engine: "None" or "Booted"
    chan,          \* the mixer's bounded command channel (engine.rs:128)
    threads,       \* the per-event threads of the cpal path (lib.rs:505, 651)
    sc_workers,    \* the scheduler threads of the SuperCollider path (lib.rs:366)
    now,           \* wall clock, in ticks
    main_pc,       \* where the thread that runs the commands stands
    cur_run,       \* run_code's locals between its bump and its scheduling
    \* ---- history (not program state) ----
    delivered,     \* every command handed to an engine, in order
    history,       \* history[e]: the stop or run that made the epoch e
    stop_failed,   \* has a stop_audio call returned Err?
    \* ---- recorder (recorder.rs:5-9) and the locks the audio callback takes ----
    is_recording,  \* *Recorder.is_recording
    rec_len,       \* Recorder.buffer.len()
    lock_rec,      \* holder of the is_recording mutex: "free", "main" or "audio"
    lock_buf,      \* holder of the buffer mutex
    lock_state,    \* holder of the engine-state mutex (engine.rs:76)
    rec_pc,        \* where the command thread stands in a recorder command
    cb_pc,         \* where the audio callback stands in a frame
    save_written,  \* samples save_to_file has written to the file
    \* ---- the mixer inside the audio callback (engine.rs:133-136) ----
    voices,            \* Vec<Voice>
    sample_playbacks,  \* Vec<SamplePlayback>
    last_retired,      \* history: what the latest callback removed, and how
    is_playing,        \* AudioState.is_playing (engine.rs:57)
    frame_log,         \* history: the flag and the lists after each frame of the latest callback
    playthrough,       \* one sample played from start to end at user rate 1.0
    \* ---- the rest of the application ----
    log_messages,      \* AppState.log_messages (lib.rs:36)
    parse_st,          \* a parse_code call in progress: lines, ParseContext, commands
    sc_nodes,          \* the external bridge's node tree and trackers (sc_engine.rs)
    sc_host,           \* the ScEngine values alive, the server process, and AppState's slot
    lock_st,           \* the command threads' places and the mutexes they hold
    osc_st,            \* the bridge's socket: replies waiting to be read, loads in progress
    spread_st          \* a call of euclidean_rhythm: its arguments and its result

lowerVars == <<parsed, pos, result, time_offset, current_bpm, fx>>
dispatchVars == <<session_id, use_sc, sc_engine, chan, threads, sc_workers, now, main_pc,
                  cur_run, delivered, history, stop_failed>>
recVars == <<is_recording, rec_len, lock_rec, lock_buf, lock_state, rec_pc, cb_pc,
             save_written>>
vars == <<parsed, pos, result, time_offset, current_bpm, fx,
          session_id, use_sc, sc_engine, chan, threads, sc_workers, now, main_pc,
          cur_run, delivered, history, stop_failed,
          is_recording, rec_len, lock_rec, lock_buf, lock_state, rec_pc, cb_pc,
          save_written, voices, sample_playbacks, last_retired, is_playing, frame_log,
          playthrough, log_messages, parse_st, sc_nodes, sc_host, lock_st, osc_st, spread_st>>
extVars == <<sc_host, lock_st, osc_st, spread_st>>
appVars == <<log_messages, parse_st, sc_nodes, sc_host, lock_st, osc_st, spread_st>>

\* Nothing of the parts below is in use.
ExtIdle == sc_host = <<>> /\ lock_st = <<>> /\ osc_st = <<>> /\ spread_st = <<>>
mixVars == <<voices, sample_playbacks, last_retired, is_playing, frame_log, playthrough>>

-----------------------------------------------------------------------------
(* Bounds of the model. *)

\* Stand-in for the 500 iterations of a loop without `stop`.
LoopIterations == 3
\* Stand-in for the 100_000-event safety cap of one loop expansion.
CommandCap == 4
\* Longest block body, and the repeat count of N.times, in the programs drawn.
MaxBodyLen == 2
MaxTimes == 2
\* Stand-in for the mixer channel's capacity of 4096 commands.
ChanCap == 6
\* Stand-in for max_schedule_time, 600 s.
MaxScheduleTime == 4
\* How many times the epoch is bumped, and how far the clock runs.
MaxSession == 2
MaxClock == 2
\* The most samples the recorder's buffer is followed to.
MaxRecorded == 2

-----------------------------------------------------------------------------
(* ParsedCommand (parser.rs:8-49). *)

PlayNote(f)       == [op |-> "PlayNote", frequency |-> f]
PlaySample(n)     == [op |-> "PlaySample", name |-> n]
Sleep(b)          == [op |-> "Sleep", beats |-> b]
SetBpm(b)         == [op |-> "SetBpm", bpm |-> b]
SetVolume(v)      == [op |-> "SetVolume", vol |-> v]
WithFx(ft, ps, c) == [op |-> "WithFx", fx_type |-> ft, params |-> ps, commands |-> c]
Loop(c, par)      == [op |-> "Loop", commands |-> c, parallel |-> par]
TimesLoop(n, c)   == [op |-> "TimesLoop", count |-> n, commands |-> c]
StopCmd           == [op |-> "Stop"]
Comment           == [op |-> "Comment"]

(* AudioCommand (engine.rs:13-52); `arg` carries the payload. *)
AudioCmd(k, a) == [kind |-> k, arg |-> a]
Timed(t, c)    == [t |-> t, cmd |-> c]

\* 60.0 / current_bpm, in ticks.
BeatDuration(bpm) == 120 \div bpm

\* commands.iter().any(|c| matches!(c, ParsedCommand::Stop))
HasStop(commands) == \E j \in 1..Len(commands) : commands[j].op = "Stop"

\* A lowering that ignores the Stop rule.
LoopCount_NoStopRule(commands) == LoopIterations

\* let loop_iterations = if has_stop { 1 } else { 500 };
LoopCount(commands) == IF HasStop(commands) THEN 1 ELSE LoopIterations

\* for (t, c) in inner { result.push((base + t, c)); }
Shift(inner, base) == [k \in 1..Len(inner) |-> Timed(base + inner[k].t, inner[k].cmd)]

\* params.iter().find(|(n, _)| n == a || n == b).map(|(_, v)| *v).unwrap_or(d)
RECURSIVE FindParam(_, _, _)
FindParam(params, names, d) ==
    IF params = <<>> THEN d
    ELSE IF Head(params)[1] \in names THEN Head(params)[2]
    ELSE FindParam(Tail(params), names, d)

\* The effect state at the start of commands_to_audio (thousandths; Hz).
FxDefault == [reverb |-> 0, delay_time |-> 0, delay_feedback |-> 0,
              distortion |-> 0, lpf |-> 20000, hpf |-> 20]

\* match fx_type.as_str() { ... } of the WithFx arm.
ApplyFx(f, fx_type, params) ==
    IF fx_type \in {"reverb", "gverb", "krush"}
      THEN [f EXCEPT !.reverb = FindParam(params, {"mix"}, 500)]
    ELSE IF fx_type \in {"echo", "delay"}
      THEN [f EXCEPT !.delay_time = FindParam(params, {"phase", "time"}, 250),
                     !.delay_feedback = FindParam(params, {"feedback", "decay"}, 500)]
    ELSE IF fx_type \in {"distortion", "tanh"}
      THEN [f EXCEPT !.distortion = FindParam(params, {"distort", "mix"}, 500)]
    ELSE IF fx_type \in {"lpf", "rlpf", "nrlpf"}
      THEN [f EXCEPT !.lpf = FindParam(params, {"cutoff"}, 1000)]
    ELSE IF fx_type \in {"hpf", "rhpf", "nrhpf"}
      THEN [f EXCEPT !.hpf = FindParam(params, {"cutoff"}, 500)]
    ELSE f

SetEffectCmd(f) == AudioCmd("SetEffect",
    <<f.reverb, f.delay_time, f.delay_feedback, f.distortion, f.lpf, f.hpf>>)

-----------------------------------------------------------------------------
(* commands_to_duration (parser.rs:2774-2808). *)

RECURSIVE DurationFrom(_, _, _, _)
commands_to_duration(cmds, bpm) == DurationFrom(cmds, 1, bpm, 0)

DurationFrom(cmds, i, bpm, dur) ==
    IF i > Len(cmds) THEN dur
    ELSE LET c == cmds[i] IN
      CASE c.op = "Sleep" -> DurationFrom(cmds, i + 1, bpm, dur + c.beats * BeatDuration(bpm))
        [] c.op = "SetBpm" -> DurationFrom(cmds, i + 1, c.bpm, dur)
        [] c.op = "TimesLoop" ->
             DurationFrom(cmds, i + 1, bpm, dur + c.count * commands_to_duration(c.commands, bpm))
        [] c.op = "Loop" ->
             IF c.parallel THEN DurationFrom(cmds, i + 1, bpm, dur)
             ELSE DurationFrom(cmds, i + 1, bpm,
                      dur + LoopCount(c.commands) * commands_to_duration(c.commands, bpm))
        [] c.op = "WithFx" ->
             DurationFrom(cmds, i + 1, bpm, dur + commands_to_duration(c.commands, bpm))
        [] c.op = "Stop" -> dur
        [] OTHER -> DurationFrom(cmds, i + 1, bpm, dur)

-----------------------------------------------------------------------------
(* commands_to_audio (parser.rs:2552-2771).  A lowering state is the       *)
(* function's locals; LowerCmd is one pass of its for loop over one        *)
(* command, LowerFrom the loop itself.                                     *)

LowerState(r, t, b, f) == [result |-> r, time_offset |-> t, current_bpm |-> b, fx |-> f]

RECURSIVE LowerFrom(_, _, _)
RECURSIVE ExpandBody(_, _, _, _, _, _)

commands_to_audio(cmds, bpm) ==
    LowerFrom(cmds, 1, LowerState(<<>>, 0, bpm, FxDefault)).result

\* A lowering without the safety cap.
OverCap_Never(r) == FALSE

\* Has the accumulated output passed the cap?  (result.len() > 100_000)
OverCap(r) == Len(r) > CommandCap

\* The body of `for iter in 0..n`, shared by the Loop and TimesLoop arms:
\* append the body's events at clock t, advance t by the body's duration,
\* break once the output is over the cap.
ExpandBody(commands, bpm, r, t, iter, n) ==
    IF iter >= n THEN [result |-> r, time |-> t, iters |-> iter]
    ELSE LET inner == commands_to_audio(commands, bpm)
             inner_duration == commands_to_duration(commands, bpm)
             r2 == r \o Shift(inner, t)
             t2 == t + inner_duration
         IN IF OverCap(r2) THEN [result |-> r2, time |-> t2, iters |-> iter + 1]
            ELSE ExpandBody(commands, bpm, r2, t2, iter + 1, n)

\* A lowering in which no loop advances the clock.
LoopEndTime_NeverAdvance(parallel, before, loop_time) == before

\* A lowering in which every loop advances the clock.
LoopEndTime_AlwaysAdvance(parallel, before, loop_time) == loop_time

\* Where the clock stands after a Loop: unchanged for a parallel loop.
LoopEndTime(parallel, before, loop_time) == IF parallel THEN before ELSE loop_time

LowerCmd(st, c) ==
    CASE c.op = "PlayNote" ->
           IF c.frequency > 0
             THEN [st EXCEPT !.result = Append(@, Timed(st.time_offset, AudioCmd("PlayNote", <<c.frequency>>)))]
             ELSE st
      [] c.op = "PlaySample" ->
           \* samples: Vec::new() is filled in by the caller; the name kept here
           \* only records which sample command the event was lowered from.
           [st EXCEPT !.result = Append(@, Timed(st.time_offset, AudioCmd("PlaySample", <<c.name>>)))]
      [] c.op = "Sleep" ->
           [st EXCEPT !.time_offset = @ + c.beats * BeatDuration(st.current_bpm)]
      [] c.op = "SetBpm" ->
           [st EXCEPT !.current_bpm = c.bpm,
                      !.result = Append(@, Timed(st.time_offset, AudioCmd("SetBpm", <<c.bpm>>)))]
      [] c.op = "SetVolume" ->
           [st EXCEPT !.result = Append(@, Timed(st.time_offset, AudioCmd("SetMasterVolume", <<c.vol>>)))]
      [] c.op = "WithFx" ->
           LET inside == ApplyFx(st.fx, c.fx_type, c.params)
               inner == commands_to_audio(c.commands, st.current_bpm)
               inner_duration == commands_to_duration(c.commands, st.current_bpm)
               t2 == st.time_offset + inner_duration
           IN [st EXCEPT
                 !.result = (@ \o << Timed(st.time_offset, AudioCmd("FxStart", <<>>)),
                                     Timed(st.time_offset, SetEffectCmd(inside)) >>
                               \o Shift(inner, st.time_offset))
                            \o << Timed(t2, AudioCmd("FxEnd", <<>>)),
                                  Timed(t2, SetEffectCmd(st.fx)) >>,
                 !.time_offset = t2]
      [] c.op = "Loop" ->
           LET e == ExpandBody(c.commands, st.current_bpm, st.result, st.time_offset,
                               0, LoopCount(c.commands))
           IN [st EXCEPT !.result = e.result,
                         !.time_offset = LoopEndTime(c.parallel, st.time_offset, e.time)]
      [] c.op = "TimesLoop" ->
           LET e == ExpandBody(c.commands, st.current_bpm, st.result, st.time_offset,
                               0, c.count)
           IN [st EXCEPT !.result = e.result, !.time_offset = e.time]
      [] OTHER -> st

\* A lowering that steps over a Stop instead of breaking.
LowerFrom_IgnoreStop(cmds, i, st) ==
    IF i > Len(cmds) THEN st
    ELSE LowerFrom(cmds, i + 1, LowerCmd(st, cmds[i]))

LowerFrom(cmds, i, st) ==
    IF i > Len(cmds) THEN st
    ELSE IF cmds[i].op = "Stop" THEN st
    ELSE LowerFrom(cmds, i + 1, LowerCmd(st, cmds[i]))

-----------------------------------------------------------------------------
(* collect_sample_names (lib.rs:673-713).  A `return` leaves only the call  *)
(* it stands in: the caller goes on with its own list.                     *)

RECURSIVE CollectFrom(_, _, _)
RECURSIVE CollectLoop(_, _, _, _)
RECURSIVE CollectTimes(_, _, _)

collect_sample_names(cmds) == CollectFrom(cmds, 1, <<>>)

\* for _ in 0..iters { recurse; if names.len() > 100_000 { return; } }
CollectLoop(body, names, iter, n) ==
    IF iter >= n THEN [names |-> names, capped |-> FALSE]
    ELSE LET n2 == CollectFrom(body, 1, names)
         IN IF Len(n2) > CommandCap THEN [names |-> n2, capped |-> TRUE]
            ELSE CollectLoop(body, n2, iter + 1, n)

\* for _ in 0..*count { recurse }
CollectTimes(body, names, n) ==
    IF n <= 0 THEN names ELSE CollectTimes(body, CollectFrom(body, 1, names), n - 1)

\* collect_sample_names_recursive: for cmd in parsed { match cmd { ... } }
CollectFrom(cmds, i, names) ==
    IF i > Len(cmds) THEN names
    ELSE LET c == cmds[i] IN
      CASE c.op = "PlaySample" -> CollectFrom(cmds, i + 1, Append(names, c.name))
        [] c.op = "Loop" ->
             LET e == CollectLoop(c.commands, names, 0, LoopCount(c.commands))
             IN IF e.capped THEN e.names ELSE CollectFrom(cmds, i + 1, e.names)
        [] c.op = "TimesLoop" ->
             CollectFrom(cmds, i + 1, CollectTimes(c.commands, names, c.count))
        [] c.op = "WithFx" ->
             CollectFrom(cmds, i + 1, CollectFrom(c.commands, 1, names))
        [] c.op = "Stop" -> names
        [] OTHER -> CollectFrom(cmds, i + 1, names)

-----------------------------------------------------------------------------
(* The programs lowered: a construct between an optional leading and an    *)
(* optional trailing simple command.                                       *)

Leaves == {PlayNote(440), PlaySample("bd"), PlaySample("sn"), Sleep(1), Sleep(-1),
           SetBpm(60), StopCmd}
BodyLeaves == {PlayNote(440), PlaySample("bd"), Sleep(1), SetBpm(60), StopCmd}
FxChoices == { <<"reverb", << <<"mix", 300>> >> >>, <<"lpf", <<>> >> }

SeqsUpTo(S, n) == UNION {[1..k -> S] : k \in 0..n}

BlocksOver(B) ==
    {Loop(b, p) : b \in B, p \in BOOLEAN}
      \cup {TimesLoop(MaxTimes, b) : b \in B}
      \cup {WithFx(f[1], f[2], b) : f \in FxChoices, b \in B}

Bodies == SeqsUpTo(BodyLeaves, MaxBodyLen)
InnerBlocks == BlocksOver(SeqsUpTo(BodyLeaves, MaxBodyLen - 1))
NestedBodies == {<<b>> : b \in InnerBlocks}
Constructs == BlocksOver(Bodies \cup NestedBodies)
\* Two blocks side by side.
SiblingPrograms ==
    {<<a, b>> : a \in BlocksOver({<<PlaySample("bd")>>}), b \in BlocksOver({<<PlaySample("sn")>>})}
\* What follows a block.
Followers == {PlayNote(440), PlaySample("sn"), Sleep(1)}
Programs == {pre \o <<c>> \o suf :
                pre \in SeqsUpTo(Leaves, 1), c \in Constructs, suf \in SeqsUpTo(Followers, 1)}
            \cup SiblingPrograms
Bpms == {60, 120}

-----------------------------------------------------------------------------
(* Lowering as a state machine: one step per command of the top-level list. *)

\* The dispatch state while only the lowering is exercised.
DispatchIdle ==
    /\ session_id = 0 /\ use_sc = FALSE /\ sc_engine = "None"
    /\ chan = <<>> /\ threads = {}
    /\ sc_workers = {} /\ now = 0 /\ main_pc = "idle" /\ cur_run = <<>>
    /\ delivered = <<>> /\ history = <<>> /\ stop_failed = FALSE

\* The mixer's lists as AudioEngine::new creates them (engine.rs:133-134).
MixerNew ==
    /\ voices = <<>> /\ sample_playbacks = <<>> /\ last_retired = {}
    /\ is_playing = FALSE /\ frame_log = <<>>
    /\ playthrough = <<>>
    /\ log_messages = <<>> /\ parse_st = <<>> /\ sc_nodes = <<>>
    /\ ExtIdle

\* The recorder as Recorder::new leaves it (recorder.rs:12-18).
RecorderNew ==
    /\ is_recording = FALSE /\ rec_len = 0
    /\ lock_rec = "free" /\ lock_buf = "free" /\ lock_state = "free"
    /\ rec_pc = "idle" /\ cb_pc = "idle" /\ save_written = 0

LowerInit ==
    /\ DispatchIdle
    /\ RecorderNew
    /\ MixerNew
    /\ parsed \in Programs
    /\ current_bpm \in Bpms
    /\ pos = 1
    /\ result = <<>>
    /\ time_offset = 0
    /\ fx = FxDefault

\* One pass of the for loop (parser.rs:2567-2768).
LowerStep ==
    /\ pos <= Len(parsed)
    /\ parsed[pos].op # "Stop"
    /\ LET st == LowerCmd(LowerState(result, time_offset, current_bpm, fx), parsed[pos])
       IN /\ result' = st.result
          /\ time_offset' = st.time_offset
          /\ current_bpm' = st.current_bpm
          /\ fx' = st.fx
    /\ pos' = pos + 1
    /\ UNCHANGED parsed
    /\ UNCHANGED dispatchVars
    /\ UNCHANGED recVars
    /\ UNCHANGED mixVars
    /\ UNCHANGED appVars

\* ParsedCommand::Stop => break (parser.rs:2762-2765).
LowerStop ==
    /\ pos <= Len(parsed)
    /\ parsed[pos].op = "Stop"
    /\ pos' = Len(parsed) + 1
    /\ UNCHANGED <<parsed, result, time_offset, current_bpm, fx>>
    /\ UNCHANGED dispatchVars
    /\ UNCHANGED recVars
    /\ UNCHANGED mixVars
    /\ UNCHANGED appVars

LowerNext == LowerStep \/ LowerStop

SpecLower == LowerInit /\ [][LowerNext]_vars

-----------------------------------------------------------------------------
(* Properties of the lowering. *)

Monotone(r) == \A k \in 1..(Len(r) - 1) : r[k].t <= r[k + 1].t

RECURSIVE HasParallelLoop(_)
HasParallelLoop(cmds) ==
    \E k \in 1..Len(cmds) :
        \/ cmds[k].op = "Loop" /\ cmds[k].parallel
        \/ cmds[k].op \in {"Loop", "TimesLoop", "WithFx"} /\ HasParallelLoop(cmds[k].commands)

RECURSIVE ClockNeverBackwards(_)
ClockNeverBackwards(cmds) ==
    \A k \in 1..Len(cmds) :
        /\ cmds[k].op = "Sleep" => cmds[k].beats >= 0
        /\ cmds[k].op = "SetBpm" => cmds[k].bpm > 0
        /\ cmds[k].op \in {"Loop", "TimesLoop", "WithFx"} => ClockNeverBackwards(cmds[k].commands)

LoweringDone == pos > Len(parsed)

\* C7 as claimed: the list built by commands_to_audio is non-decreasing in
\* time_offset, for every parsed program.
C7_MonotoneAlways == Monotone(result)

\* C7, amended: the list built by commands_to_audio is non-decreasing in
\* time_offset for every program in which no Loop is parallel and no Sleep
\* moves the clock backwards.
C7_MonotoneSequential ==
    (~HasParallelLoop(parsed) /\ ClockNeverBackwards(parsed)) => Monotone(result)

\* A sequential program with a loop has been lowered to events at several times.
C7_Witness ==
    /\ LoweringDone
    /\ ~HasParallelLoop(parsed) /\ ClockNeverBackwards(parsed)
    /\ \E k \in 1..Len(parsed) : parsed[k].op = "Loop" /\ ~HasStop(parsed[k].commands)
    /\ Len(result) >= 3
    /\ result[1].t < result[Len(result)].t

\* The step that lowers a Loop with parallel = false.
AtSequentialLoop ==
    /\ pos <= Len(parsed)
    /\ parsed[pos].op = "Loop"
    /\ ~parsed[pos].parallel

StopRuleCount(body) == IF HasStop(body) THEN 1 ELSE LoopIterations

\* C10 as claimed: lowering a Loop with parallel = false advances time_offset
\* by exactly N x duration(body), N being 1 if the body contains Stop and the
\* iteration cap otherwise.
C10_AdvanceByN ==
    [][AtSequentialLoop =>
         time_offset' = time_offset
            + StopRuleCount(parsed[pos].commands)
                * commands_to_duration(parsed[pos].commands, current_bpm)]_vars

\* C10, amended: lowering a Loop with parallel = false advances time_offset by
\* k x duration(body) for the k iterations expanded; k is N (1 if the body
\* contains Stop, the iteration cap otherwise) unless the output has passed
\* the event cap, and then 1 <= k < N.
C10_AdvanceByExpanded ==
    [][AtSequentialLoop =>
         LET body == parsed[pos].commands
             n == StopRuleCount(body)
             d == commands_to_duration(body, current_bpm)
         IN \E k \in 1..n :
               /\ time_offset' = time_offset + k * d
               /\ k < n => Len(result') > CommandCap]_vars

\* A sequential loop of positive duration has just been lowered in full.
C10_Witness ==
    /\ pos > 1 /\ pos <= Len(parsed) + 1
    /\ ~HasStop(parsed)
    /\ parsed[pos - 1].op = "Loop" /\ ~parsed[pos - 1].parallel
    /\ ~HasStop(parsed[pos - 1].commands)
    /\ commands_to_duration(parsed[pos - 1].commands, current_bpm) > 0
    /\ Len(result) <= CommandCap
    /\ time_offset >= LoopIterations

\* A parallel Loop whose body has a positive sequential duration.
IsParallelLoop(c, bpm) ==
    /\ c.op = "Loop" /\ c.parallel
    /\ commands_to_duration(c.commands, bpm) > 0

\* Commands whose lowering begins by pushing an event at the current clock.
EmitsAtOnce(c) ==
    \/ c.op \in {"PlaySample", "SetBpm", "SetVolume", "WithFx"}
    \/ c.op = "PlayNote" /\ c.frequency > 0

\* C11: lowering a Loop with parallel = true whose body has duration d > 0
\* leaves time_offset where it was, and the first event lowered after the loop
\* carries that same time_offset.
C11_ParallelLoopKeepsClock ==
    [][/\ (pos <= Len(parsed) /\ IsParallelLoop(parsed[pos], current_bpm))
            => time_offset' = time_offset
       /\ (/\ pos > 1 /\ pos <= Len(parsed)
           /\ IsParallelLoop(parsed[pos - 1], current_bpm)
           /\ EmitsAtOnce(parsed[pos]))
            => /\ Len(result') > Len(result)
               /\ result'[Len(result) + 1].t = time_offset]_vars

\* A parallel loop has put events later on the clock than the event lowered
\* after it.
C11_Witness ==
    /\ pos > 2
    /\ IsParallelLoop(parsed[pos - 2], current_bpm)
    /\ parsed[pos - 1].op = "PlaySample"
    /\ Len(result) >= 2
    /\ result[Len(result)].t < result[Len(result) - 1].t

\* The step that lowers a Loop, parallel or not.
AtLoop == pos <= Len(parsed) /\ parsed[pos].op = "Loop"

\* k expansions of a body: its events at t, t + d, ..., t + (k - 1) d.
RECURSIVE Copies(_, _, _, _)
Copies(inner, k, t, d) ==
    IF k = 0 THEN <<>> ELSE Copies(inner, k - 1, t, d) \o Shift(inner, t + (k - 1) * d)

\* The Loop at `pos` is expanded exactly k times, stopping early only at the
\* first expansion that takes the output over the cap.
ExpandedTimes(k, n) ==
    LET body == parsed[pos].commands
        inner == commands_to_audio(body, current_bpm)
        d == commands_to_duration(body, current_bpm)
    IN /\ result' = result \o Copies(inner, k, time_offset, d)
       /\ \A j \in 1..(k - 1) : Len(result) + j * Len(inner) <= CommandCap
       /\ k < n => Len(result') > CommandCap

\* Is there a Stop anywhere in the commands, inner blocks included?
RECURSIVE StopAnywhere(_)
StopAnywhere(cmds) ==
    \E k \in 1..Len(cmds) :
        \/ cmds[k].op = "Stop"
        \/ cmds[k].op \in {"Loop", "TimesLoop", "WithFx"} /\ StopAnywhere(cmds[k].commands)

\* C12 as claimed: a Loop's body is expanded exactly once when it contains a
\* Stop (at any depth), and the iteration cap's number of times otherwise,
\* subject only to the event cap.
C12_OnceIfStopAnywhere ==
    [][AtLoop =>
         IF StopAnywhere(parsed[pos].commands)
           THEN ExpandedTimes(1, 1)
           ELSE \E k \in 1..LoopIterations : ExpandedTimes(k, LoopIterations)]_vars

\* C12, amended: a Loop's body is expanded exactly once when a Stop is one of
\* the body's own commands (a Stop inside an inner block does not count), and
\* the iteration cap's number of times otherwise, subject only to the event cap.
C12_OnceIfStopInBody ==
    [][AtLoop =>
         LET n == StopRuleCount(parsed[pos].commands)
         IN \E k \in 1..n : ExpandedTimes(k, n)]_vars

\* A loop without Stop has been expanded the full number of times.
C12_Witness ==
    /\ pos = 2
    /\ parsed[1] = Loop(<<PlayNote(440)>>, TRUE)
    /\ Len(result) = LoopIterations
    /\ result[LoopIterations].t = 0

\* The step that lowers a Loop or an N.times block.
AtAnyLoop == pos <= Len(parsed) /\ parsed[pos].op \in {"Loop", "TimesLoop"}

\* C13: once the output lowered so far has passed the event cap, no loop is
\* expanded any further: lowering a later loop adds no event.
C13_NoExpansionPastCap ==
    [][(AtAnyLoop /\ Len(result) > CommandCap) => result' = result]_vars

\* The commands of a list up to, not including, its first Stop.
UpToStop(cmds) ==
    LET ks == {k \in 1..Len(cmds) : cmds[k].op = "Stop"}
    IN IF ks = {} THEN cmds
       ELSE SubSeq(cmds, 1, (CHOOSE k \in ks : \A j \in ks : k <= j) - 1)

IsBlock(c) == c.op \in {"Loop", "TimesLoop", "WithFx"}

\* A block body, and every body nested in it, lowers to the events and the
\* duration of its commands before its first Stop.
RECURSIVE EndsAtStop(_)
EndsAtStop(body) ==
    /\ \A bpm \in Bpms :
         /\ commands_to_audio(body, bpm) = commands_to_audio(UpToStop(body), bpm)
         /\ commands_to_duration(body, bpm) = commands_to_duration(UpToStop(body), bpm)
    /\ \A k \in 1..Len(body) : IsBlock(body[k]) => EndsAtStop(body[k].commands)

\* C14: when the lowering of a command list reaches a Stop, no later command of
\* that list adds an event or advances the clock -- in the top-level list
\* (the Stop step changes neither and ends the loop over the list) and in
\* every block body.
C14_StopEndsList ==
    [][/\ pos <= Len(parsed)
       /\ parsed[pos].op = "Stop"
            => /\ result' = result /\ time_offset' = time_offset
               /\ pos' = Len(parsed) + 1
       /\ IsBlock(parsed[pos]) => EndsAtStop(parsed[pos].commands)]_vars

\* A list with a Stop ahead of a block and a sample has been lowered to nothing.
C14_Witness ==
    /\ LoweringDone
    /\ Len(parsed) = 3
    /\ parsed[1].op = "Stop" /\ IsBlock(parsed[2]) /\ parsed[3].op = "PlaySample"
    /\ result = <<>> /\ time_offset = 0

\* The six effect parameters in force just before place i of the lowered
\* list: those of the latest SetEffect before i, the initial ones if none.
InForce(r, i) ==
    LET ks == {k \in 1..(i - 1) : r[k].cmd.kind = "SetEffect"}
    IN IF ks = {} THEN SetEffectCmd(FxDefault).arg
       ELSE r[CHOOSE k \in ks : \A j \in ks : j <= k].cmd.arg

\* The place of the FxEnd that closes the block whose FxStart stands before
\* place i, `depth` blocks being open at i (0 if the list ends first).
RECURSIVE MatchEnd(_, _, _)
MatchEnd(r, i, depth) ==
    IF i > Len(r) THEN 0
    ELSE IF r[i].cmd.kind = "FxStart" THEN MatchEnd(r, i + 1, depth + 1)
    ELSE IF r[i].cmd.kind = "FxEnd"
           THEN IF depth = 1 THEN i ELSE MatchEnd(r, i + 1, depth - 1)
    ELSE MatchEnd(r, i + 1, depth)

\* C15: for every with_fx block in the lowered list, the SetEffect emitted at
\* the block's exit carries exactly the six parameters that were in force
\* immediately before the block was entered.
C15_ExitRestoresEntryState ==
    \A i \in 1..Len(result) :
        result[i].cmd.kind = "FxStart" =>
            LET j == MatchEnd(result, i + 1, 1)
            IN /\ j > 0 /\ j < Len(result)
               /\ result[j + 1].cmd.kind = "SetEffect"
               /\ result[j + 1].cmd.arg = InForce(result, i)

\* The sample commands the PlaySample events of a lowered list came from.
LoweredSampleNames(r) ==
    LET ev == SelectSeq(r, LAMBDA e : e.cmd.kind = "PlaySample")
    IN [k \in 1..Len(ev) |-> ev[k].cmd.arg[1]]

\* C17: commands_to_audio emits as many PlaySample events as
\* collect_sample_names returns names, and the k-th name is the name of the
\* sample command the k-th PlaySample event was lowered from.
C17_NamesPairWithEvents ==
    LoweringDone => LoweredSampleNames(result) = collect_sample_names(parsed)

\* The step that lowers a Sleep of the top-level list.
AtSleep == pos <= Len(parsed) /\ parsed[pos].op = "Sleep"

\* 60 / bpm seconds, in ticks.
TicksPerBeat(bpm) == 120 \div bpm

\* The tempo of the most recent SetBpm lowered so far, whatever list it stood
\* in (each lowered SetBpm leaves an event); the tempo lowering began with if
\* there is none.
LastLoweredBpm ==
    LET ks == {k \in 1..Len(result) : result[k].cmd.kind = "SetBpm"}
    IN IF ks = {} THEN current_bpm
       ELSE result[CHOOSE k \in ks : \A j \in ks : j <= k].cmd.arg[1]

\* C18: a Sleep advances time_offset by beats x 60 / bpm, bpm being the value
\* of the most recent SetBpm lowered before it, or the initial tempo if none.
C18_SleepUsesLastLoweredBpm ==
    [][AtSleep =>
         time_offset' = time_offset + parsed[pos].beats * TicksPerBeat(LastLoweredBpm)]_vars

-----------------------------------------------------------------------------
(* The dispatch scheduler: run_code, schedule_samples_with_timing and      *)
(* stop_audio (lib.rs), the threads they spawn, and the mixer's channel.   *)
(* The commands run one at a time on one thread (main_pc); the spawned     *)
(* threads and the audio callback interleave with them.  Sends to the      *)
(* external engine are taken to succeed, and sample files to exist.        *)

\* AudioState::default().bpm
EngineBpm == 120

\* parsed.iter().find_map(|cmd| SetBpm(b) => Some(b)).unwrap_or(engine_bpm)
EffectiveBpm(prog, engine_bpm) ==
    LET ks == {k \in 1..Len(prog) : prog[k].op = "SetBpm"}
    IN IF ks = {} THEN engine_bpm
       ELSE prog[CHOOSE k \in ks : \A j \in ks : k <= j].bpm

\* The timed commands of a run, each with its place in the lowering order.
Indexed(timed) ==
    [k \in 1..Len(timed) |-> [idx |-> k, t |-> timed[k].t, kind |-> timed[k].cmd.kind]]

\* if *time_offset > max_schedule_time { continue; }
WithinSchedule(e) == e.t <= MaxScheduleTime

\* if *time_offset < 0.001 { send now } else { spawn a thread }
Immediate(e) == e.t < 1

IsSample(e) == e.kind = "PlaySample"
IsOther(e)  == e.kind # "PlaySample"

\* all_events.sort_by(|a, b| a.0.partial_cmp(&b.0)...): a stable sort.
InsertByTime(sorted, e) ==
    LET k == Cardinality({j \in 1..Len(sorted) : sorted[j].t <= e.t})
    IN SubSeq(sorted, 1, k) \o <<e>> \o SubSeq(sorted, k + 1, Len(sorted))

RECURSIVE SortByTime(_)
SortByTime(s) ==
    IF s = <<>> THEN <<>>
    ELSE InsertByTime(SortByTime(SubSeq(s, 1, Len(s) - 1)), s[Len(s)])

\* The SuperCollider path's schedule (lib.rs:266-353).
ScSchedule(timed) == SortByTime(SelectSeq(timed, WithinSchedule))

\* The cpal path's order of scheduling: the loop over the non-sample
\* commands (lib.rs:485-516), then schedule_samples_with_timing (616-667).
CpalOrder(timed) ==
    SelectSeq(timed, LAMBDA e : IsOther(e) /\ WithinSchedule(e))
      \o SelectSeq(timed, LAMBDA e : IsSample(e) /\ WithinSchedule(e))

\* A record of one command reaching an engine: the epoch of the run or stop
\* it belongs to, and the session epoch when it was handed over.
Delivery(run, e, to, epoch) ==
    [run |-> run, idx |-> e.idx, t |-> e.t, kind |-> e.kind, to |-> to, epoch |-> epoch]

ChanMsg(run, e) == [run |-> run, idx |-> e.idx, kind |-> e.kind]

StopEvent == [idx |-> 0, t |-> 0, kind |-> "Stop"]

\* self.command_tx.try_send(cmd) (engine.rs:332-336): fails when full.
ChanFull(c) == Len(c) >= ChanCap

\* The two scheduling loops of the cpal path over `order` from place i.
\* acc.ok turns FALSE where `engine.send_command(..)?` returns the error.
RECURSIVE CpalSchedule(_, _, _, _, _)
CpalSchedule(order, i, run, clock, acc) ==
    IF i > Len(order) \/ ~acc.ok THEN acc
    ELSE LET e == order[i] IN
      IF Immediate(e)
        THEN IF ChanFull(acc.chan)
               THEN [acc EXCEPT !.ok = FALSE]
               ELSE CpalSchedule(order, i + 1, run, clock,
                      [acc EXCEPT !.chan = Append(@, ChanMsg(run, e)),
                                  !.log = Append(@, Delivery(run, e, "mixer", run)),
                                  !.scheduled = @ \cup {e.idx}])
        ELSE CpalSchedule(order, i + 1, run, clock,
               [acc EXCEPT !.threads = @ \cup {[run |-> run, ev |-> e,
                                                 wake |-> clock + e.t, pc |-> "sleep"]},
                           !.scheduled = @ \cup {e.idx}])

\* The programs run.
RunPrograms ==
    { <<PlayNote(440), Sleep(1), PlaySample("bd"), Sleep(1), PlayNote(440)>>,
      <<WithFx("reverb", << <<"mix", 300>> >>, <<PlayNote(440), PlaySample("bd")>>)>>,
      <<Loop(<<PlayNote(440), Sleep(1)>>, TRUE), PlaySample("bd")>> }

DispatchInit ==
    /\ parsed = <<>> /\ pos = 1 /\ result = <<>> /\ time_offset = 0
    /\ current_bpm = EngineBpm /\ fx = FxDefault
    /\ session_id = 0
    /\ sc_engine \in {"None", "Booted"}
    /\ use_sc = (sc_engine = "Booted")
    /\ chan = <<>>
    /\ threads = {}
    /\ sc_workers = {}
    /\ now = 0
    /\ main_pc = "idle"
    /\ cur_run = <<>>
    /\ delivered = <<>>
    /\ history = <<>>
    /\ stop_failed = FALSE
    /\ RecorderNew
    /\ MixerNew

\* run_code up to and including the epoch bump (lib.rs:80-191).
RunCodeBegin(prog) ==
    /\ main_pc = "idle"
    /\ session_id < MaxSession
    /\ LET timed == Indexed(commands_to_audio(prog, EffectiveBpm(prog, EngineBpm)))
       IN /\ cur_run' = [timed |-> timed, current_session |-> session_id + 1,
                         using_sc |-> use_sc]
          /\ history' = Append(history,
                 [kind |-> "run", outcome |-> "pending", using_sc |-> use_sc,
                  timed |-> timed,
                  expected |-> {timed[k].idx : k \in {j \in 1..Len(timed) : WithinSchedule(timed[j])}},
                  scheduled |-> {}])
    /\ session_id' = session_id + 1
    /\ main_pc' = "run_schedule"
    /\ UNCHANGED <<use_sc, sc_engine, chan, threads, sc_workers, now, delivered, stop_failed>>
    /\ UNCHANGED lowerVars
    /\ UNCHANGED recVars
    /\ UNCHANGED mixVars
    /\ UNCHANGED appVars

\* The rest of run_code on the SuperCollider path (lib.rs:198-455).
RunCodeScheduleSc(preload_ok) ==
    /\ main_pc = "run_schedule"
    /\ cur_run.using_sc
    /\ LET run == cur_run.current_session
           all_events == ScSchedule(cur_run.timed)
       IN /\ delivered' = Append(delivered,
                 Delivery(run, [idx |-> 0, t |-> 0, kind |-> "StopAll"], "sc", session_id))
          /\ IF preload_ok
               THEN /\ sc_workers' = IF all_events = <<>> THEN sc_workers
                                     ELSE sc_workers \cup {[run |-> run, events |-> all_events,
                                                            i |-> 1, start |-> now, pc |-> "check"]}
                    /\ history' = [history EXCEPT ![run].outcome = "ok",
                                     ![run].scheduled = {all_events[k].idx : k \in 1..Len(all_events)}]
               ELSE /\ sc_workers' = sc_workers
                    /\ history' = [history EXCEPT ![run].outcome = "preload_err"]
    /\ main_pc' = "idle"
    /\ cur_run' = <<>>
    /\ UNCHANGED <<session_id, use_sc, sc_engine, chan, threads, now, stop_failed>>
    /\ UNCHANGED lowerVars
    /\ UNCHANGED recVars
    /\ UNCHANGED mixVars
    /\ UNCHANGED appVars

\* The rest of run_code on the cpal path (lib.rs:456-550).
RunCodeScheduleCpal(preload_ok) ==
    /\ main_pc = "run_schedule"
    /\ ~cur_run.using_sc
    /\ LET run == cur_run.current_session
           acc == CpalSchedule(CpalOrder(cur_run.timed), 1, run, now,
                     [chan |-> chan, threads |-> threads, log |-> delivered,
                      scheduled |-> {}, ok |-> TRUE])
       IN IF preload_ok
            THEN /\ chan' = acc.chan
                 /\ threads' = acc.threads
                 /\ delivered' = acc.log
                 /\ history' = [history EXCEPT
                                  ![run].outcome = IF acc.ok THEN "ok" ELSE "send_err",
                                  ![run].scheduled = acc.scheduled]
            ELSE /\ history' = [history EXCEPT ![run].outcome = "preload_err"]
                 /\ UNCHANGED <<chan, threads, delivered>>
    /\ main_pc' = "idle"
    /\ cur_run' = <<>>
    /\ UNCHANGED <<session_id, use_sc, sc_engine, sc_workers, now, stop_failed>>
    /\ UNCHANGED lowerVars
    /\ UNCHANGED recVars
    /\ UNCHANGED mixVars
    /\ UNCHANGED appVars

\* preload_samples / preload_samples_sc can fail only on a sample.
RunCodeSchedule ==
    \E preload_ok \in BOOLEAN :
        /\ main_pc = "run_schedule"
        /\ preload_ok \/ \E k \in 1..Len(cur_run.timed) : IsSample(cur_run.timed[k])
        /\ \/ RunCodeScheduleSc(preload_ok)
           \/ RunCodeScheduleCpal(preload_ok)

\* stop_audio up to the bump (lib.rs:850-855): Stop to the mixer, with `?`,
\* then stop_all to the external engine.
StopAudioSend ==
    /\ main_pc = "idle"
    /\ session_id < MaxSession
    /\ IF ChanFull(chan)
         THEN /\ stop_failed' = TRUE
              /\ UNCHANGED <<chan, delivered, main_pc>>
         ELSE /\ chan' = Append(chan, ChanMsg(session_id + 1, StopEvent))
              /\ delivered' =
                   LET d1 == Append(delivered,
                                 Delivery(session_id + 1, StopEvent, "mixer", session_id))
                   IN IF sc_engine = "Booted"
                        THEN Append(d1, Delivery(session_id + 1,
                                 [idx |-> 0, t |-> 0, kind |-> "StopAll"], "sc", session_id))
                        ELSE d1
              /\ main_pc' = "stop_bump"
              /\ UNCHANGED stop_failed
    /\ UNCHANGED <<session_id, use_sc, sc_engine, threads, sc_workers, now, cur_run, history>>
    /\ UNCHANGED lowerVars
    /\ UNCHANGED recVars
    /\ UNCHANGED mixVars
    /\ UNCHANGED appVars

\* stop_audio's bump (lib.rs:856-859).
StopAudioBump ==
    /\ main_pc = "stop_bump"
    /\ session_id' = session_id + 1
    /\ history' = Append(history, [kind |-> "stop"])
    /\ main_pc' = "idle"
    /\ UNCHANGED <<use_sc, sc_engine, chan, threads, sc_workers, now, cur_run,
                   delivered, stop_failed>>
    /\ UNCHANGED lowerVars
    /\ UNCHANGED recVars
    /\ UNCHANGED mixVars
    /\ UNCHANGED appVars

\* toggle_sc_engine (lib.rs:1577-1603).
ToggleScEngine(enabled) ==
    /\ main_pc = "idle"
    /\ IF enabled
         THEN use_sc' = IF sc_engine = "Booted" THEN TRUE ELSE use_sc
         ELSE use_sc' = FALSE
    /\ use_sc' # use_sc
    /\ UNCHANGED <<session_id, sc_engine, chan, threads, sc_workers, now, main_pc,
                   cur_run, delivered, history, stop_failed>>
    /\ UNCHANGED lowerVars
    /\ UNCHANGED recVars
    /\ UNCHANGED mixVars
    /\ UNCHANGED appVars

\* A cpal thread: sleep(delay) is over; read the epoch (lib.rs:506-508, 652-654).
ThreadCheck(w) ==
    /\ w \in threads
    /\ w.pc = "sleep"
    /\ now >= w.wake
    /\ threads' = IF session_id = w.run
                    THEN (threads \ {w}) \cup {[w EXCEPT !.pc = "checked"]}
                    ELSE threads \ {w}
    /\ UNCHANGED <<session_id, use_sc, sc_engine, chan, sc_workers, now, main_pc,
                   cur_run, delivered, history, stop_failed>>
    /\ UNCHANGED lowerVars
    /\ UNCHANGED recVars
    /\ UNCHANGED mixVars
    /\ UNCHANGED appVars

\* A cpal thread: tx.try_send(cmd); a full channel drops the command
\* (lib.rs:509-511, 655-657).
ThreadSend(w) ==
    /\ w \in threads
    /\ w.pc = "checked"
    /\ threads' = threads \ {w}
    /\ IF ChanFull(chan)
         THEN UNCHANGED <<chan, delivered>>
         ELSE /\ chan' = Append(chan, ChanMsg(w.run, w.ev))
              /\ delivered' = Append(delivered, Delivery(w.run, w.ev, "mixer", session_id))
    /\ UNCHANGED <<session_id, use_sc, sc_engine, sc_workers, now, main_pc,
                   cur_run, history, stop_failed>>
    /\ UNCHANGED lowerVars
    /\ UNCHANGED recVars
    /\ UNCHANGED mixVars
    /\ UNCHANGED appVars

\* The SuperCollider scheduler thread's epoch checks (lib.rs:377-382, 403-407).
ScWorkerCheck(w) ==
    /\ w \in sc_workers
    /\ w.pc \in {"check", "recheck"}
    /\ sc_workers' = IF session_id = w.run
                       THEN (sc_workers \ {w}) \cup
                              {[w EXCEPT !.pc = IF w.pc = "check" THEN "wait" ELSE "exec"]}
                       ELSE sc_workers \ {w}
    /\ UNCHANGED <<session_id, use_sc, sc_engine, chan, threads, now, main_pc,
                   cur_run, delivered, history, stop_failed>>
    /\ UNCHANGED lowerVars
    /\ UNCHANGED recVars
    /\ UNCHANGED mixVars
    /\ UNCHANGED appVars

\* ... its wait for the event's target time (lib.rs:385-400).
ScWorkerWait(w) ==
    /\ w \in sc_workers
    /\ w.pc = "wait"
    /\ now >= w.start + w.events[w.i].t
    /\ sc_workers' = (sc_workers \ {w}) \cup {[w EXCEPT !.pc = "recheck"]}
    /\ UNCHANGED <<session_id, use_sc, sc_engine, chan, threads, now, main_pc,
                   cur_run, delivered, history, stop_failed>>
    /\ UNCHANGED lowerVars
    /\ UNCHANGED recVars
    /\ UNCHANGED mixVars
    /\ UNCHANGED appVars

\* ... and its execution of the event (lib.rs:410-448).
ScWorkerExec(w) ==
    /\ w \in sc_workers
    /\ w.pc = "exec"
    /\ delivered' = IF sc_engine = "Booted"
                      THEN Append(delivered, Delivery(w.run, w.events[w.i], "sc", session_id))
                      ELSE delivered
    /\ sc_workers' = IF w.i < Len(w.events)
                       THEN (sc_workers \ {w}) \cup {[w EXCEPT !.i = w.i + 1, !.pc = "check"]}
                       ELSE sc_workers \ {w}
    /\ UNCHANGED <<session_id, use_sc, sc_engine, chan, threads, now, main_pc,
                   cur_run, history, stop_failed>>
    /\ UNCHANGED lowerVars
    /\ UNCHANGED recVars
    /\ UNCHANGED mixVars
    /\ UNCHANGED appVars

\* The audio callback drains the channel (engine.rs:144-221).
AudioCallbackDrain ==
    /\ chan # <<>>
    /\ chan' = <<>>
    /\ UNCHANGED <<session_id, use_sc, sc_engine, threads, sc_workers, now, main_pc,
                   cur_run, delivered, history, stop_failed>>
    /\ UNCHANGED lowerVars
    /\ UNCHANGED recVars
    /\ UNCHANGED mixVars
    /\ UNCHANGED appVars

\* Time passes.
Tick ==
    /\ now < MaxClock
    /\ now' = now + 1
    /\ UNCHANGED <<session_id, use_sc, sc_engine, chan, threads, sc_workers, main_pc,
                   cur_run, delivered, history, stop_failed>>
    /\ UNCHANGED lowerVars
    /\ UNCHANGED recVars
    /\ UNCHANGED mixVars
    /\ UNCHANGED appVars

Next ==
    \/ \E prog \in RunPrograms : RunCodeBegin(prog)
    \/ RunCodeSchedule
    \/ StopAudioSend
    \/ StopAudioBump
    \/ \E enabled \in BOOLEAN : ToggleScEngine(enabled)
    \/ \E w \in threads : ThreadCheck(w)
    \/ \E w \in threads : ThreadSend(w)
    \/ \E w \in sc_workers : ScWorkerCheck(w)
    \/ \E w \in sc_workers : ScWorkerWait(w)
    \/ \E w \in sc_workers : ScWorkerExec(w)
    \/ AudioCallbackDrain
    \/ Tick

Spec == DispatchInit /\ [][Next]_vars

-----------------------------------------------------------------------------
(* Properties of the dispatch scheduler. *)

\* The deliveries that are events of a run (not a stop's own commands).
IsRunEvent(d) == d.kind \notin {"Stop", "StopAll"}

\* Was the epoch bumped by a `kind` ("stop" or "run") after epoch `from`, up
\* to and including epoch `to`?
BumpedBy(kind, from, to) == \E e \in (from + 1)..to : history[e].kind = kind

\* C1: once stop_audio has bumped the epoch, no event of a worker spawned
\* under an earlier epoch is delivered to the mixer channel or to the external
\* engine.
C1_NoStaleEventAfterStop ==
    \A k \in 1..Len(delivered) :
        IsRunEvent(delivered[k]) =>
            ~BumpedBy("stop", delivered[k].run, delivered[k].epoch)

\* C2: once a second run_code has bumped the epoch, no event lowered for the
\* first run is dispatched any more.
C2_NoStaleEventAfterRerun ==
    \A k \in 1..Len(delivered) :
        IsRunEvent(delivered[k]) =>
            ~BumpedBy("run", delivered[k].run, delivered[k].epoch)

\* C3: every command or event of a stop or run reaches an engine only after
\* that stop or run has incremented the epoch.
C3_BumpBeforeAnySend ==
    \A k \in 1..Len(delivered) : delivered[k].epoch >= delivered[k].run

\* C4: stop_audio never returns an error without having bumped the epoch.
C4_StopAlwaysSucceeds == ~stop_failed

\* C5: within one run, events with distinct time_offset reach the engine in
\* increasing time_offset order.
C5_DistinctTimesInOrder ==
    \A i, j \in 1..Len(delivered) :
        (/\ i < j
         /\ IsRunEvent(delivered[i]) /\ IsRunEvent(delivered[j])
         /\ delivered[i].run = delivered[j].run
         /\ delivered[i].t # delivered[j].t)
        => delivered[i].t < delivered[j].t

\* C6: within one run, events with the same time_offset reach the engine in
\* their lowering order.
C6_EqualTimesInLoweringOrder ==
    \A i, j \in 1..Len(delivered) :
        (/\ i < j
         /\ IsRunEvent(delivered[i]) /\ IsRunEvent(delivered[j])
         /\ delivered[i].run = delivered[j].run
         /\ delivered[i].t = delivered[j].t)
        => delivered[i].idx < delivered[j].idx

\* C8: a channel-full error never aborts a run: no run_code call ends on a
\* send error, and a run that has been set up has scheduled every event
\* within its schedule.
C8_SendErrorNeverAbortsRun ==
    \A e \in 1..Len(history) :
        history[e].kind = "run" =>
            /\ history[e].outcome # "send_err"
            /\ history[e].outcome = "ok" => history[e].scheduled = history[e].expected

-----------------------------------------------------------------------------
(* The recorder (recorder.rs), the commands that drive it (lib.rs:909-924, *)
(* 1057-1059, 863-894) and the locks the audio callback takes in each      *)
(* frame (engine.rs:291-302).  A mutex is acquired in a step of its own,   *)
(* enabled only while the mutex is free: a thread standing before such a   *)
(* step with the mutex held by the other thread is waiting for it.         *)

RecRest == UNCHANGED <<lowerVars, dispatchVars, mixVars, appVars>>

RecInit ==
    /\ parsed = <<>> /\ pos = 1 /\ result = <<>> /\ time_offset = 0
    /\ current_bpm = EngineBpm /\ fx = FxDefault
    /\ DispatchIdle
    /\ RecorderNew
    /\ MixerNew

\* A recorder command arrives: start_recording, stop_recording,
\* save_recording, get_status or get_waveform.
CommandArrives(first_pc) ==
    /\ rec_pc = "idle"
    /\ rec_pc' = first_pc
    /\ UNCHANGED <<is_recording, rec_len, lock_rec, lock_buf, lock_state, cb_pc, save_written>>
    /\ RecRest

\* Recorder::start (recorder.rs:20-25).
StartLockRecording ==
    /\ rec_pc = "start" /\ lock_rec = "free"
    /\ lock_rec' = "main" /\ rec_pc' = "start_has_rec"
    /\ UNCHANGED <<is_recording, rec_len, lock_buf, lock_state, cb_pc, save_written>>
    /\ RecRest

StartLockBuffer ==
    /\ rec_pc = "start_has_rec" /\ lock_buf = "free"
    /\ lock_buf' = "main" /\ rec_pc' = "start_has_both"
    /\ UNCHANGED <<is_recording, rec_len, lock_rec, lock_state, cb_pc, save_written>>
    /\ RecRest

StartClear ==
    /\ rec_pc = "start_has_both"
    /\ rec_len' = 0 /\ is_recording' = TRUE
    /\ lock_buf' = "free" /\ lock_rec' = "free"
    /\ rec_pc' = "idle"
    /\ UNCHANGED <<lock_state, cb_pc, save_written>>
    /\ RecRest

\* Recorder::stop (recorder.rs:27-30), called by stop_recording, which goes
\* on to save_to_file (lib.rs:916-923).
StopLockRecording ==
    /\ rec_pc = "stop" /\ lock_rec = "free"
    /\ lock_rec' = "main" /\ rec_pc' = "stop_has_rec"
    /\ UNCHANGED <<is_recording, rec_len, lock_buf, lock_state, cb_pc, save_written>>
    /\ RecRest

StopClearFlag ==
    /\ rec_pc = "stop_has_rec"
    /\ is_recording' = FALSE
    /\ lock_rec' = "free"
    /\ rec_pc' = "save"
    /\ UNCHANGED <<rec_len, lock_buf, lock_state, cb_pc, save_written>>
    /\ RecRest

\* Recorder::save_to_file (recorder.rs:43-75): the buffer's guard lives to
\* the end of the function.
SaveLockBuffer ==
    /\ rec_pc = "save" /\ lock_buf = "free"
    /\ lock_buf' = "main" /\ rec_pc' = "save_has_buf"
    /\ UNCHANGED <<is_recording, rec_len, lock_rec, lock_state, cb_pc, save_written>>
    /\ RecRest

\* if buffer.is_empty() { return Err }; else WavWriter::create(path, spec)?
SaveCreateFile ==
    /\ rec_pc = "save_has_buf"
    /\ \E created \in BOOLEAN :
         IF rec_len = 0 \/ ~created
           THEN lock_buf' = "free" /\ rec_pc' = "idle"
           ELSE lock_buf' = lock_buf /\ rec_pc' = "save_io"
    /\ save_written' = 0
    /\ UNCHANGED <<is_recording, rec_len, lock_rec, lock_state, cb_pc>>
    /\ RecRest

\* writer.write_sample(sample)? for each sample of the buffer.
SaveWriteSample ==
    /\ rec_pc = "save_io"
    /\ save_written < rec_len
    /\ \E written \in BOOLEAN :
         IF written
           THEN save_written' = save_written + 1 /\ UNCHANGED <<lock_buf, rec_pc>>
           ELSE lock_buf' = "free" /\ rec_pc' = "idle" /\ UNCHANGED save_written
    /\ UNCHANGED <<is_recording, rec_len, lock_rec, lock_state, cb_pc>>
    /\ RecRest

\* writer.finalize(), then the guard is dropped.
SaveFinalize ==
    /\ rec_pc = "save_io"
    /\ save_written = rec_len
    /\ lock_buf' = "free" /\ rec_pc' = "idle"
    /\ UNCHANGED <<is_recording, rec_len, lock_rec, lock_state, cb_pc, save_written>>
    /\ RecRest

\* get_status: get_state_snapshot (engine.rs:347-350), then
\* Recorder::is_recording (recorder.rs:32-34).  get_waveform (engine.rs:342-345)
\* takes the state lock the same way.
StatusLockState ==
    /\ rec_pc \in {"status", "waveform"} /\ lock_state = "free"
    /\ lock_state' = "main"
    /\ rec_pc' = IF rec_pc = "status" THEN "status_has_state" ELSE "waveform_has_state"
    /\ UNCHANGED <<is_recording, rec_len, lock_rec, lock_buf, cb_pc, save_written>>
    /\ RecRest

StatusUnlockState ==
    /\ rec_pc \in {"status_has_state", "waveform_has_state"}
    /\ lock_state' = "free"
    /\ rec_pc' = IF rec_pc = "status_has_state" THEN "status_rec" ELSE "idle"
    /\ UNCHANGED <<is_recording, rec_len, lock_rec, lock_buf, cb_pc, save_written>>
    /\ RecRest

StatusLockRecording ==
    /\ rec_pc = "status_rec" /\ lock_rec = "free"
    /\ lock_rec' = "main" /\ rec_pc' = "status_has_rec"
    /\ UNCHANGED <<is_recording, rec_len, lock_buf, lock_state, cb_pc, save_written>>
    /\ RecRest

StatusUnlockRecording ==
    /\ rec_pc = "status_has_rec"
    /\ lock_rec' = "free" /\ rec_pc' = "idle"
    /\ UNCHANGED <<is_recording, rec_len, lock_buf, lock_state, cb_pc, save_written>>
    /\ RecRest

\* The audio callback, one output frame: push_samples (recorder.rs:36-41),
\* then the waveform write under the state lock (engine.rs:296-302).
FrameBegins ==
    /\ cb_pc = "idle"
    /\ cb_pc' = "push"
    /\ UNCHANGED <<is_recording, rec_len, lock_rec, lock_buf, lock_state, rec_pc, save_written>>
    /\ RecRest

PushLockRecording ==
    /\ cb_pc = "push" /\ lock_rec = "free"
    /\ lock_rec' = "audio" /\ cb_pc' = "push_has_rec"
    /\ UNCHANGED <<is_recording, rec_len, lock_buf, lock_state, rec_pc, save_written>>
    /\ RecRest

\* if *self.is_recording.lock() { ... }: the guard goes with the condition.
PushReadFlag ==
    /\ cb_pc = "push_has_rec"
    /\ lock_rec' = "free"
    /\ cb_pc' = IF is_recording THEN "push_buf" ELSE "scope"
    /\ UNCHANGED <<is_recording, rec_len, lock_buf, lock_state, rec_pc, save_written>>
    /\ RecRest

PushLockBuffer ==
    /\ cb_pc = "push_buf" /\ lock_buf = "free"
    /\ lock_buf' = "audio" /\ cb_pc' = "push_has_buf"
    /\ UNCHANGED <<is_recording, rec_len, lock_rec, lock_state, rec_pc, save_written>>
    /\ RecRest

PushExtend ==
    /\ cb_pc = "push_has_buf"
    /\ rec_len' = IF rec_len < MaxRecorded THEN rec_len + 1 ELSE rec_len
    /\ lock_buf' = "free" /\ cb_pc' = "scope"
    /\ UNCHANGED <<is_recording, lock_rec, lock_state, rec_pc, save_written>>
    /\ RecRest

ScopeLockState ==
    /\ cb_pc = "scope" /\ lock_state = "free"
    /\ lock_state' = "audio" /\ cb_pc' = "scope_has_state"
    /\ UNCHANGED <<is_recording, rec_len, lock_rec, lock_buf, rec_pc, save_written>>
    /\ RecRest

ScopeWrite ==
    /\ cb_pc = "scope_has_state"
    /\ lock_state' = "free" /\ cb_pc' = "idle"
    /\ UNCHANGED <<is_recording, rec_len, lock_rec, lock_buf, rec_pc, save_written>>
    /\ RecRest

RecNext ==
    \/ \E c \in {"start", "stop", "save", "status", "waveform"} : CommandArrives(c)
    \/ StartLockRecording \/ StartLockBuffer \/ StartClear
    \/ StopLockRecording \/ StopClearFlag
    \/ SaveLockBuffer \/ SaveCreateFile \/ SaveWriteSample \/ SaveFinalize
    \/ StatusLockState \/ StatusUnlockState \/ StatusLockRecording \/ StatusUnlockRecording
    \/ FrameBegins \/ PushLockRecording \/ PushReadFlag \/ PushLockBuffer \/ PushExtend
    \/ ScopeLockState \/ ScopeWrite

SpecRec == RecInit /\ [][RecNext]_vars

\* The audio callback stands before a mutex that the command thread holds.
CallbackWaitsFor(lock, at) == cb_pc = at /\ lock = "main"

\* The command thread is inside file I/O (create, write_sample, finalize).
InBlockingIo == rec_pc = "save_io"

\* C9: the audio callback never waits for a lock (is_recording, buffer or
\* engine state) that the command thread holds across blocking I/O.
C9_CallbackNeverWaitsAcrossIo ==
    ~(/\ InBlockingIo
      /\ \/ CallbackWaitsFor(lock_rec, "push")
         \/ CallbackWaitsFor(lock_buf, "push_buf")
         \/ CallbackWaitsFor(lock_state, "scope"))

-----------------------------------------------------------------------------
(* The external engine's effect nodes.  push_fx_bus and pop_fx_bus, which   *)
(* lib.rs:433 and 438 call, keep the created nodes on a stack: FxStart      *)
(* creates a node and remembers it on top, FxEnd pops the top and frees it. *)

\* The stack and the frees after the FxStart / FxEnd deliveries ds[i..]:
\* a free is <<idx of the FxStart whose node is freed, idx of the FxEnd>>.
RECURSIVE FxReplay(_, _, _, _)
FxReplay(ds, i, stack, frees) ==
    IF i > Len(ds) THEN [stack |-> stack, frees |-> frees]
    ELSE IF ds[i].kind = "FxStart"
           THEN FxReplay(ds, i + 1, <<ds[i].idx>> \o stack, frees)
    ELSE IF stack = <<>> THEN FxReplay(ds, i + 1, stack, frees \cup {<<0, ds[i].idx>>})
    ELSE FxReplay(ds, i + 1, Tail(stack), frees \cup {<<Head(stack), ds[i].idx>>})

\* What run r has had the external engine do to effect nodes so far.
FxDelivered(r) ==
    SelectSeq(delivered, LAMBDA d : d.to = "sc" /\ d.run = r /\ d.kind \in {"FxStart", "FxEnd"})

\* The place in lowering order of the FxEnd closing the with_fx block opened
\* before place i, `depth` blocks being open at i.
RECURSIVE BlockEnd(_, _, _)
BlockEnd(timed, i, depth) ==
    IF i > Len(timed) THEN 0
    ELSE IF timed[i].kind = "FxStart" THEN BlockEnd(timed, i + 1, depth + 1)
    ELSE IF timed[i].kind = "FxEnd"
           THEN IF depth = 1 THEN i ELSE BlockEnd(timed, i + 1, depth - 1)
    ELSE BlockEnd(timed, i + 1, depth)

\* Programs with with_fx blocks: one after the other, nested, and in a thread
\* beside the main sequence.
FxPrograms ==
    { <<WithFx("reverb", << <<"mix", 300>> >>, <<PlayNote(440), Sleep(1)>>),
        WithFx("lpf", <<>>, <<PlayNote(440)>>)>>,
      <<WithFx("reverb", << <<"mix", 300>> >>,
               <<WithFx("lpf", <<>>, <<PlayNote(440), Sleep(1)>>), Sleep(1)>>)>>,
      <<Loop(<<WithFx("reverb", << <<"mix", 300>> >>, <<Sleep(1)>>), StopCmd>>, TRUE),
        WithFx("lpf", <<>>, <<Sleep(1), Sleep(1)>>)>> }

\* The application with the external engine booted and in use (lib.rs:1674-1687).
FxInit == DispatchInit /\ sc_engine = "Booted"

FxNext ==
    \/ \E prog \in FxPrograms : RunCodeBegin(prog)
    \/ RunCodeSchedule
    \/ StopAudioSend
    \/ StopAudioBump
    \/ \E w \in sc_workers : ScWorkerCheck(w)
    \/ \E w \in sc_workers : ScWorkerWait(w)
    \/ \E w \in sc_workers : ScWorkerExec(w)
    \/ AudioCallbackDrain
    \/ Tick

SpecFx == FxInit /\ [][FxNext]_vars

\* C16: on the external-engine path, in a run neither stopped nor superseded,
\* an FxEnd frees the node created by the FxStart of its own with_fx block and
\* no other.
C16_FxEndFreesOwnNode ==
    \A r \in 1..Len(history) :
        (r = Len(history) /\ session_id = r /\ main_pc = "idle" /\ history[r].kind = "run")
          => \A f \in FxReplay(FxDelivered(r), 1, <<>>, {}).frees :
                 /\ f[1] > 0
                 /\ f[2] = BlockEnd(history[r].timed, f[1] + 1, 1)

(***************************************************************************)
(* The built-in engine's output callback (engine.rs:142-308): it drains    *)
(* the command channel, mixes `frames` output frames, and drops what has   *)
(* finished.  Time is counted in ticks of half a second, so a rate of      *)
(* SampleRate frames per second turns d ticks into d * SampleRate / 2      *)
(* frames; a sample position is kept in half samples, so that a fractional *)
(* position (rate 0.5 or 1.5) and its truncation to an index both occur.   *)
(***************************************************************************)

\* Stand-in for the device's sample rate (44100 or 48000), frames per second.
SampleRate == 3
\* Frames in the longest output buffer the device asks for.
MaxFrames == 2
\* Voices and sample playbacks alive or queued at one time.
MaxVoices == 2
\* Commands waiting in the channel when a callback starts.
MaxQueued == 1
\* Longest sample buffer, in samples.
MaxSampleLen == 3

\* The notes played: duration and envelope, in ticks.
NoteShapes ==
    { [duration |-> 1, attack |-> 0, decay |-> 0, release |-> r] : r \in 0..1 }

\* The samples played: buffer length, and effective rate in half samples per
\* frame (0, 0.5, 1 and 1.5 samples per frame).
SampleKinds ==
    { [len |-> 1, rate |-> 2], [len |-> MaxSampleLen - 1, rate |-> 3] }
      \cup { [len |-> MaxSampleLen, rate |-> r] : r \in {0, 1} }

\* total_dur of a lowered PlayNote (parser.rs:2578).
TotalDur(n) == n.duration + n.attack + n.decay + n.release

\* An engine that truncates nothing and keeps every voice one frame more.
DurationSamples_OneMore(duration_secs) == (duration_secs * SampleRate) \div 2 + 1

\* (duration_secs * sample_rate as f32) as u64 (engine.rs:164).
DurationSamples(duration_secs) == (duration_secs * SampleRate) \div 2

\* The PlayNote command of a note (parser.rs:2578-2591); `note` is kept for
\* the properties only.
PlayNoteCmd(n) == AudioCmd("PlayNote", [duration_secs |-> TotalDur(n), note |-> n])

\* The PlaySample command with its buffer filled in (lib.rs:616-640).
PlaySampleCmd(len, rate) == AudioCmd("PlaySample", [len |-> len, rate |-> rate])

\* Voice as pushed at engine.rs:161-166.
NewVoice(a) ==
    [note |-> a.note, samples_elapsed |-> 0,
     duration_samples |-> DurationSamples(a.duration_secs)]

\* SamplePlayback as pushed at engine.rs:181-188.
NewPlayback(a) == [len |-> a.len, position |-> 0, rate |-> a.rate, done |-> FALSE]

\* The test of engine.rs:231 and of the retain at 306.
VoiceSounds(v) == v.samples_elapsed < v.duration_samples

\* One frame of one voice (engine.rs:230-241).
FrameVoice(v) ==
    IF VoiceSounds(v) THEN [v EXCEPT !.samples_elapsed = @ + 1] ELSE v

\* sp.position as usize (engine.rs:246).
PosIdx(sp) == IF sp.position < 0 THEN 0 ELSE sp.position \div 2

\* A mixer that stops only when the index itself has left the buffer.
HasData_OnePast(sp) == PosIdx(sp) < sp.len

\* idx + 1 < len (engine.rs:248).
HasData(sp) == PosIdx(sp) + 1 < sp.len

\* One frame of one sample playback (engine.rs:244-275).
FramePlayback(sp) ==
    IF sp.done THEN sp
    ELSE IF HasData(sp) THEN [sp EXCEPT !.position = @ + sp.rate]
    ELSE [sp EXCEPT !.done = TRUE]

\* The command loop of the callback (engine.rs:144-221): commands from cmds[i]
\* on, applied to the lists vs and ps; `cleared` collects what Stop dropped.
RECURSIVE DrainCommands(_, _, _, _, _)
DrainCommands(cmds, i, vs, ps, cleared) ==
    IF i > Len(cmds) THEN [voices |-> vs, sample_playbacks |-> ps, cleared |-> cleared]
    ELSE LET cmd == cmds[i] IN
         CASE cmd.kind = "PlayNote" ->
                DrainCommands(cmds, i + 1, Append(vs, NewVoice(cmd.arg)), ps, cleared)
           [] cmd.kind = "PlaySample" ->
                DrainCommands(cmds, i + 1, vs, Append(ps, NewPlayback(cmd.arg)), cleared)
           [] cmd.kind = "Stop" ->
                DrainCommands(cmds, i + 1, <<>>, <<>>,
                    cleared \cup { [what |-> "voice", item |-> vs[k], by |-> "stop"] : k \in 1..Len(vs) }
                            \cup { [what |-> "sample", item |-> ps[k], by |-> "stop"] : k \in 1..Len(ps) })
           [] OTHER -> DrainCommands(cmds, i + 1, vs, ps, cleared)

\* A voice and a playback after n frames of the frame loop.
RECURSIVE VoiceAfter(_, _)
VoiceAfter(v, n) == IF n = 0 THEN v ELSE VoiceAfter(FrameVoice(v), n - 1)

RECURSIVE PlaybackAfter(_, _)
PlaybackAfter(sp, n) == IF n = 0 THEN sp ELSE PlaybackAfter(FramePlayback(sp), n - 1)

\* The frame loop (engine.rs:225-303), n frames: each frame steps every voice
\* and every playback once, and none of them reads another.
MixFrames(vs, ps, n) ==
    [voices           |-> [k \in 1..Len(vs) |-> VoiceAfter(vs[k], n)],
     sample_playbacks |-> [k \in 1..Len(ps) |-> PlaybackAfter(ps[k], n)]]

NotDone(sp) == ~sp.done

\* !voices.is_empty() || sample_playbacks.iter().any(|sp| !sp.done)
\* (engine.rs:301).
IsPlayingFlag(vs, ps) == vs # <<>> \/ \E k \in 1..Len(ps) : ~ps[k].done

\* What the k-th frame of a callback leaves: the flag it stores, and whether a
\* voice or a playback is still sounding then.
FrameRecord(vs, ps, k) ==
    LET m == MixFrames(vs, ps, k)
    IN [is_playing  |-> IsPlayingFlag(m.voices, m.sample_playbacks),
        voice_alive |-> \E j \in 1..Len(m.voices) : VoiceSounds(m.voices[j]),
        sample_live |-> \E j \in 1..Len(m.sample_playbacks) : ~m.sample_playbacks[j].done]

\* Room in the model for one more voice or playback.
MixerRoom ==
    /\ Len(chan) < ChanCap
    /\ Len(chan) < MaxQueued
    /\ Len(chan) + Len(voices) + Len(sample_playbacks) < MaxVoices

MixRest == UNCHANGED <<lowerVars, recVars, appVars, session_id, use_sc, sc_engine, threads,
                       sc_workers, now, main_pc, cur_run, delivered, history, stop_failed>>

\* send_command (engine.rs:332-336) with a PlayNote, a PlaySample or a Stop.
SendPlayNote(n) ==
    /\ MixerRoom
    /\ chan' = Append(chan, PlayNoteCmd(n))
    /\ UNCHANGED mixVars
    /\ UNCHANGED appVars
    /\ MixRest

SendPlaySample(len, rate) ==
    /\ MixerRoom
    /\ chan' = Append(chan, PlaySampleCmd(len, rate))
    /\ UNCHANGED mixVars
    /\ UNCHANGED appVars
    /\ MixRest

SendStop ==
    /\ Len(chan) < ChanCap
    /\ Len(chan) < MaxQueued
    /\ chan' = Append(chan, AudioCmd("Stop", <<>>))
    /\ UNCHANGED mixVars
    /\ UNCHANGED appVars
    /\ MixRest

\* One run of the output callback over a buffer of `frames` frames
\* (engine.rs:142-308).
AudioCallback(frames) ==
    \E drained \in {DrainCommands(chan, 1, voices, sample_playbacks, {})} :
    \E mixed \in {MixFrames(drained.voices, drained.sample_playbacks, frames)} :
    LET vs == mixed.voices
        ps == mixed.sample_playbacks
    IN  /\ chan' = <<>>
        /\ voices' = SelectSeq(vs, VoiceSounds)
        /\ sample_playbacks' = SelectSeq(ps, NotDone)
        /\ last_retired' =
               drained.cleared
                 \cup { [what |-> "voice", item |-> vs[k], by |-> "retain"] :
                          k \in { j \in 1..Len(vs) : ~VoiceSounds(vs[j]) } }
                 \cup { [what |-> "sample", item |-> ps[k], by |-> "retain"] :
                          k \in { j \in 1..Len(ps) : ps[j].done } }
        /\ frame_log' = [k \in 1..frames |->
                            FrameRecord(drained.voices, drained.sample_playbacks, k)]
        /\ is_playing' = IsPlayingFlag(vs, ps)
        /\ UNCHANGED playthrough
        /\ MixRest

\* The engine as AudioEngine::new leaves it (engine.rs:128-134).
MixInit ==
    /\ parsed = <<>> /\ pos = 1 /\ result = <<>> /\ time_offset = 0
    /\ current_bpm = EngineBpm /\ fx = FxDefault
    /\ DispatchIdle
    /\ RecorderNew
    /\ MixerNew

MixNext ==
    \/ \E n \in NoteShapes : SendPlayNote(n)
    \/ \E k \in SampleKinds : SendPlaySample(k.len, k.rate)
    \/ SendStop
    \/ \E frames \in 1..MaxFrames : AudioCallback(frames)

SpecMix == MixInit /\ [][MixNext]_vars

RetiredVoices  == { r \in last_retired : r.what = "voice" }
RetiredSamples == { r \in last_retired : r.what = "sample" }

\* Frames that the note's duration + attack + decay + release last.
NoteFrames(n) == ((n.duration + n.attack + n.decay + n.release) * SampleRate) \div 2

\* C19 as stated: every voice the callback drops has sounded for the frames of
\* its duration + attack + decay + release, and none is kept past them.
C19_VoiceLastsItsDuration ==
    /\ \A r \in RetiredVoices : r.item.samples_elapsed = NoteFrames(r.item.note)
    /\ \A k \in 1..Len(voices) : voices[k].samples_elapsed < NoteFrames(voices[k].note)

\* C19, amended: a voice dropped by the end-of-callback retain has sounded for
\* exactly the whole frames of its duration + attack + decay + release, a voice
\* cleared by a Stop command has sounded for no more than that, and no voice
\* is kept past them.
C19_VoiceLastsItsDurationUnlessStopped ==
    /\ \A r \in RetiredVoices :
           /\ r.by = "retain" => r.item.samples_elapsed = NoteFrames(r.item.note)
           /\ r.by = "stop"   => r.item.samples_elapsed <= NoteFrames(r.item.note)
    /\ \A k \in 1..Len(voices) : voices[k].samples_elapsed < NoteFrames(voices[k].note)

\* A voice that lasted several frames, over more than one callback, was retired.
C19_Witness ==
    \E r \in RetiredVoices :
        /\ r.by = "retain"
        /\ r.item.samples_elapsed > MaxFrames
        /\ r.item.note.release > 0

\* position + 1 >= buffer length, position in half samples.
AtBufferEnd(position, len) == position + 2 >= 2 * len

\* The frame that marked sp done was the first one to find it at the buffer's
\* end: the frame before, if any, found it short of the end and advanced it.
FirstAtEnd(sp) ==
    /\ AtBufferEnd(sp.position, sp.len)
    /\ sp.position > 0 => ~AtBufferEnd(sp.position - sp.rate, sp.len)

\* C20 as stated: every playback the callback drops was marked done, at the
\* first frame that found position + 1 >= length; none is marked or dropped
\* before, and none that is marked done outlives the callback.
C20_DoneAtBufferEnd ==
    /\ \A r \in RetiredSamples : r.item.done /\ FirstAtEnd(r.item)
    /\ \A k \in 1..Len(sample_playbacks) :
           LET sp == sample_playbacks[k] IN
           /\ ~sp.done
           /\ sp.position > 0 => ~AtBufferEnd(sp.position - sp.rate, sp.len)

\* C20, amended: the same for every playback that a Stop command has not
\* cleared; a playback cleared by Stop is dropped unmarked.
C20_DoneAtBufferEndUnlessStopped ==
    /\ \A r \in RetiredSamples :
           /\ r.by = "retain" => r.item.done /\ FirstAtEnd(r.item)
           /\ r.by = "stop"   => ~r.item.done
    /\ \A k \in 1..Len(sample_playbacks) :
           LET sp == sample_playbacks[k] IN
           /\ ~sp.done
           /\ sp.position > 0 => ~AtBufferEnd(sp.position - sp.rate, sp.len)

\* A playback at a fractional rate reached the end of its buffer at a
\* fractional position and was dropped.
C20_Witness ==
    \E r \in RetiredSamples :
        /\ r.by = "retain" /\ r.item.done
        /\ r.item.position % 2 = 1
        /\ r.item.len > 1

\* C21: after every output frame the shared is_playing flag tells whether
\* something still sounds: some voice has samples_elapsed < duration_samples
\* or some sample playback is not done.
C21_FlagMeansSounding ==
    /\ \A k \in 1..Len(frame_log) :
           frame_log[k].is_playing = (frame_log[k].voice_alive \/ frame_log[k].sample_live)
    /\ frame_log # <<>> => is_playing = frame_log[Len(frame_log)].is_playing

(***************************************************************************)
(* One loaded sample played through at user rate 1.0 on a device whose     *)
(* rate differs from the file's (engine.rs:169-188, 244-275).  Rates are   *)
(* small integers standing for 8000, 16000, ... Hz; the position           *)
(* k * file_sr / sample_rate is kept as its numerator over sample_rate, so *)
(* the arithmetic is exact.                                                *)
(***************************************************************************)

\* Longest loaded buffer, in frames (load_wav_file keeps one frame per input
\* frame, sample.rs:43-53).
MaxInputLen == 5
\* Sample rates range over 1..MaxRate units.
MaxRate == 3

\* SamplePlayback as pushed for a file of `len` frames recorded at file_sr
\* (engine.rs:178-188): effective_rate = 1.0 * file_sr / sample_rate.
NewPlaythrough(len, file_sr, sample_rate) ==
    [len |-> len, file_sr |-> file_sr, sample_rate |-> sample_rate,
     position |-> 0, frames |-> 0, done |-> FALSE]

\* One output frame of the playback (engine.rs:244-275); `frames` counts the
\* frames that carried the sample.
PlaythroughFrame(sp) ==
    LET idx == sp.position \div sp.sample_rate
    IN IF idx + 1 < sp.len
         THEN [sp EXCEPT !.position = @ + sp.file_sr, !.frames = @ + 1]
         ELSE [sp EXCEPT !.done = TRUE]

PlayInit ==
    /\ parsed = <<>> /\ pos = 1 /\ result = <<>> /\ time_offset = 0
    /\ current_bpm = EngineBpm /\ fx = FxDefault
    /\ DispatchIdle
    /\ RecorderNew
    /\ voices = <<>> /\ sample_playbacks = <<>> /\ last_retired = {}
    /\ is_playing = FALSE /\ frame_log = <<>>
    /\ log_messages = <<>> /\ parse_st = <<>> /\ sc_nodes = <<>>
    /\ ExtIdle
    /\ \E len \in 0..MaxInputLen, file_sr \in 1..MaxRate, sample_rate \in 1..MaxRate :
           playthrough = NewPlaythrough(len, file_sr, sample_rate)

PlayFrame ==
    /\ ~playthrough.done
    /\ playthrough' = PlaythroughFrame(playthrough)
    /\ UNCHANGED <<voices, sample_playbacks, last_retired, is_playing, frame_log, chan>>
    /\ MixRest

PlayNext == PlayFrame

SpecPlay == PlayInit /\ [][PlayNext]_vars

\* a / b rounded to the nearest integer, b > 0.
Round(a, b) == (2 * a + b) \div (2 * b)

\* C22: a sample of input_len frames recorded at input_SR, played at user rate
\* 1.0, gives round(input_len * output_SR / input_SR) output frames to within
\* one frame, whatever the two rates.
C22_OutputLengthWithinOneFrame ==
    playthrough.done =>
        LET want == Round(playthrough.len * playthrough.sample_rate, playthrough.file_sr)
            d    == playthrough.frames - want
        IN d >= -1 /\ d <= 1

(***************************************************************************)
(* The engine log kept in AppState.log_messages and what run_code does to  *)
(* it on each of its ways out (lib.rs:80-551).                             *)
(***************************************************************************)

\* Stand-in for the 1000 entries the store is trimmed to.
LogCap == 4
\* Most entries one run collects before it schedules (lib.rs:87-203).
MaxRunLogs == 3
\* Calls of run_code.
MaxLogRuns == 4

\* The entries a run has collected when it reaches the scheduling: "Parsing",
\* "Parsed", then the summary, warning and program log lines (lib.rs:87-203).
RunLogs(run, n) == [k \in 1..n |-> [run |-> run, level |-> "info"]]

ErrorEntry(run) == [run |-> run, level |-> "error"]

\* Keep only the last LogCap entries (lib.rs:531-535).
KeepLast(store) ==
    IF Len(store) > LogCap
      THEN SubSeq(store, Len(store) - LogCap + 1, Len(store))
      ELSE store

LogRest == UNCHANGED <<lowerVars, recVars, mixVars, extVars, parse_st, sc_nodes, use_sc, sc_engine,
                       chan, threads, sc_workers, now, main_pc, cur_run, delivered,
                       history, stop_failed>>

\* run_code that gets to its end (lib.rs:527-537).
RunCodeStoresLogs(n) ==
    /\ session_id < MaxLogRuns
    /\ session_id' = session_id + 1
    /\ log_messages' = KeepLast(log_messages \o RunLogs(session_id + 1, n))
    /\ LogRest

\* run_code that fails to load a sample, on either engine's path
\* (lib.rs:228-239, 466-477).
RunCodeSampleLoadError(n) ==
    /\ session_id < MaxLogRuns
    /\ session_id' = session_id + 1
    /\ log_messages' = log_messages \o Append(RunLogs(session_id + 1, n), ErrorEntry(session_id + 1))
    /\ LogRest

\* run_code that leaves through a `?`: the bridge is missing or the command
\* channel refuses a send (lib.rs:219, 498, 521).
RunCodeSendError ==
    /\ session_id < MaxLogRuns
    /\ session_id' = session_id + 1
    /\ UNCHANGED log_messages
    /\ LogRest

\* clear_logs (lib.rs:952-954).
ClearLogs ==
    /\ log_messages # <<>>
    /\ log_messages' = <<>>
    /\ UNCHANGED session_id
    /\ LogRest

LogInit ==
    /\ parsed = <<>> /\ pos = 1 /\ result = <<>> /\ time_offset = 0
    /\ current_bpm = EngineBpm /\ fx = FxDefault
    /\ DispatchIdle
    /\ RecorderNew
    /\ MixerNew

LogNext ==
    \/ \E n \in 2..MaxRunLogs : RunCodeStoresLogs(n)
    \/ \E n \in 2..MaxRunLogs : RunCodeSampleLoadError(n)
    \/ RunCodeSendError
    \/ ClearLogs

SpecLog == LogInit /\ [][LogNext]_vars

\* C23: after any run_code call, successful or not, the stored engine log
\* holds no more than the cap's number of entries.
C23_LogNeverOverCap == Len(log_messages) <= LogCap

(***************************************************************************)
(* parse_code (parser.rs:699-930): the source text, line by line, becomes  *)
(* a list of ParsedCommand.  A source line is kept here as a record of     *)
(* what the parser reads from it; a block line carries its body, the lines *)
(* collect_block_body gathers up to the matching `end`.  Parameter values  *)
(* are in tenths; notes are frequencies in Hz.                             *)
(***************************************************************************)

\* name = (ring ...)
RingAssign(n, items)    == [kind |-> "ring", name |-> n, items |-> items]
\* play <note>, <params>
PlayLine(f, given)      == [kind |-> "play", note |-> f, given |-> given]
\* play <base>.tick, <params>
PlayTick(base, given)   == [kind |-> "play_tick", base |-> base, given |-> given]
\* play chord(<root>, ...), <params>
PlayChord(root, given)  == [kind |-> "play_chord", root |-> root, given |-> given]
\* play_pattern [<notes>], <params>
PlayPattern(notes, given) == [kind |-> "play_pattern", notes |-> notes, given |-> given]
\* play_pattern_timed [<notes>], [<times>], <params>
PlayPatternTimed(notes, times, given) ==
    [kind |-> "play_pattern_timed", notes |-> notes, times |-> times, given |-> given]
\* synth :name, note: <note>, <params>
SynthLine(f, given)     == [kind |-> "synth", note |-> f, given |-> given]
\* use_synth_defaults <params>
UseSynthDefaults(given) == [kind |-> "use_synth_defaults", given |-> given]
\* define :name do <body> end
Define(n, body)         == [kind |-> "define", name |-> n, body |-> body]
\* a line that is the name of a procedure
Call(n)                 == [kind |-> "call", name |-> n]
\* <main> if <cond>   /   <main> unless <cond>
Guarded(main, word, cond) == [kind |-> "guarded", main |-> main, word |-> word, cond |-> cond]
\* N.times do <body> end
TimesBlock(n, body)     == [kind |-> "times", count |-> n, body |-> body]
\* live_loop :name do <body> end
LiveLoop(body)          == [kind |-> "live_loop", body |-> body]
\* with_fx :type do <body> end
WithFxBlock(ft, body)   == [kind |-> "with_fx", fx_type |-> ft, body |-> body]

\* ParsedCommand::PlayNote with the fields the directives fill from parameters.
PlayNoteWith(f, amp, rel) ==
    [op |-> "PlayNote", frequency |-> f, amplitude |-> amp, release |-> rel]

\* A HashMap: a function whose domain is the keys inserted so far.
EmptyMap == [x \in {} |-> 0]
Put(m, k, v) == (k :> v) @@ m

\* ParseContext::new (parser.rs:52-81): the maps the claims here read.
ParseContext_new ==
    [ring_values |-> EmptyMap, ring_counters |-> EmptyMap,
     functions |-> EmptyMap, synth_defaults |-> EmptyMap]

\* The built-in values of amp: and release: (0.5 and 0.3).
DefaultAmp == 5
DefaultRelease == 3

\* Nested calls of parse_code_with_context the stack has room for.
MaxParseDepth == 6

\* What one call of parse_code_with_context carries: its `commands`, the
\* shared context, and two records kept for the properties: every ring
\* assignment and .tick evaluation in order, and whether the stack overflowed.
ParseEnv(ctx) == [commands |-> <<>>, ctx |-> ctx, ticks |-> <<>>, crashed |-> FALSE]

AssignEvent(key) == [ev |-> "assign", key |-> key]
TickEvent(key, val, values) == [ev |-> "tick", key |-> key, value |-> val, values |-> values]

\* resolve_to_list for a ring variable (parser.rs:381-460): Some(items) or None.
resolve_to_list(ctx, base) ==
    IF base \in DOMAIN ctx.ring_values THEN <<ctx.ring_values[base]>> ELSE <<>>

\* A .tick that never moves its cursor.
NextCursor_Stuck(counter) == counter

\* *counter += 1
NextCursor(counter) == counter + 1

\* resolve_list_value for `<base>.tick` (parser.rs:284-329).
resolve_list_value(env, base) ==
    LET found == resolve_to_list(env.ctx, base) IN
    IF found = <<>> THEN [val |-> <<>>, env |-> env]
    ELSE IF Len(found[1]) = 0 THEN [val |-> <<>>, env |-> env]
    ELSE LET values  == found[1]
             counter == IF base \in DOMAIN env.ctx.ring_counters
                          THEN env.ctx.ring_counters[base] ELSE 0
             val     == values[(counter % Len(values)) + 1]
         IN [val |-> <<val>>,
             env |-> [env EXCEPT !.ctx.ring_counters = Put(@, base, NextCursor(counter)),
                                 !.ticks = Append(@, TickEvent(base, val, values))]]

\* parse_note_value for a number above 20: a frequency, taken as it is
\* (parser.rs:2408-2411).  The sources below write every note that way.
parse_note_value(v) == IF v > 20 THEN <<v>> ELSE <<>>

\* extract_param(line, param).unwrap_or(fallback)
extract_param(given, param, fallback) ==
    IF param \in DOMAIN given THEN given[param] ELSE fallback

\* extract_param_with_defaults (parser.rs:1762-1766).
extract_param_with_defaults(given, param, defaults, fallback) ==
    IF param \in DOMAIN given THEN given[param]
    ELSE IF param \in DOMAIN defaults THEN defaults[param]
    ELSE fallback

\* The PlayNote of the "play" and "synth" arms (parser.rs:1816-1878, 1939-1988).
NoteFromDefaults(f, given, ctx) ==
    PlayNoteWith(f,
                 extract_param_with_defaults(given, "amp", ctx.synth_defaults, DefaultAmp),
                 extract_param_with_defaults(given, "release", ctx.synth_defaults, DefaultRelease))

\* parse_play_chord (parser.rs:2142-2186): one PlayNote at the chord's root.
parse_play_chord(line, ctx) ==
    PlayNoteWith(line.root,
                 extract_param(line.given, "amp", DefaultAmp),
                 extract_param(line.given, "release", DefaultRelease))

\* parse_play_pattern (parser.rs:2274-2312): PlayNote, Sleep(1.0) per note,
\* wrapped in a TimesLoop of one round.
parse_play_pattern(line, ctx) ==
    TimesLoop(1, [k \in 1..(2 * Len(line.notes)) |->
                    IF k % 2 = 1
                      THEN PlayNoteWith(line.notes[(k + 1) \div 2],
                                        extract_param(line.given, "amp", DefaultAmp),
                                        extract_param(line.given, "release", DefaultRelease))
                      ELSE Sleep(1)])

\* parse_play_pattern_timed (parser.rs:2214-2272): as above with the listed
\* sleep after each note.
parse_play_pattern_timed(line, ctx) ==
    TimesLoop(1, [k \in 1..(2 * Len(line.notes)) |->
                    IF k % 2 = 1
                      THEN PlayNoteWith(line.notes[(k + 1) \div 2],
                                        extract_param(line.given, "amp", DefaultAmp),
                                        extract_param(line.given, "release", DefaultRelease))
                      ELSE Sleep(line.times[(((k \div 2) - 1) % Len(line.times)) + 1])])

\* parse_defaults_line (parser.rs:1769-1782): insert each key: value pair.
parse_defaults_line(given, defaults) == given @@ defaults

\* Does the trailing guard let the statement through?  (parser.rs:1787-1808)
GuardPasses(word, cond) == IF word = "if" THEN cond ELSE ~cond

\* parse_line (parser.rs:1784-2066): Some(command) or None, and the context.
RECURSIVE parse_line(_, _)
parse_line(line, env) ==
    CASE line.kind = "guarded" ->
           IF GuardPasses(line.word, line.cond)
             THEN parse_line(line.main, env)
             ELSE [cmd |-> <<>>, env |-> env]
      [] line.kind = "play" ->
           LET note == parse_note_value(line.note) IN
           IF note = <<>> THEN [cmd |-> <<>>, env |-> env]
           ELSE [cmd |-> <<NoteFromDefaults(note[1], line.given, env.ctx)>>, env |-> env]
      [] line.kind = "play_tick" ->
           LET r == resolve_list_value(env, line.base) IN
           IF r.val = <<>> THEN [cmd |-> <<>>, env |-> r.env]
           ELSE LET note == parse_note_value(r.val[1]) IN
                IF note = <<>> THEN [cmd |-> <<>>, env |-> r.env]
                ELSE [cmd |-> <<NoteFromDefaults(note[1], line.given, r.env.ctx)>>,
                      env |-> r.env]
      [] line.kind = "play_chord" ->
           [cmd |-> <<parse_play_chord(line, env.ctx)>>, env |-> env]
      [] line.kind = "play_pattern" ->
           [cmd |-> <<parse_play_pattern(line, env.ctx)>>, env |-> env]
      [] line.kind = "play_pattern_timed" ->
           [cmd |-> <<parse_play_pattern_timed(line, env.ctx)>>, env |-> env]
      [] line.kind = "synth" ->
           LET note == parse_note_value(line.note) IN
           IF note = <<>> THEN [cmd |-> <<>>, env |-> env]
           ELSE [cmd |-> <<NoteFromDefaults(note[1], line.given, env.ctx)>>, env |-> env]
      [] line.kind = "use_synth_defaults" ->
           [cmd |-> <<Comment>>,
            env |-> [env EXCEPT !.ctx.synth_defaults = parse_defaults_line(line.given, @)]]
      [] OTHER -> [cmd |-> <<>>, env |-> env]

\* line.split_whitespace().next(): the first word of the whole line, its
\* trailing guard included (parser.rs:906-910).
RECURSIVE FirstWord(_)
FirstWord(line) ==
    IF line.kind = "guarded" THEN FirstWord(line.main)
    ELSE IF line.kind = "call" THEN line.name
    ELSE line.kind

BlockKinds == {"times", "live_loop", "with_fx", "define"}

RECURSIVE parse_code_with_context(_, _, _)
RECURSIVE ParseFrom(_, _, _, _)

\* An expansion that leaves a called procedure's body out.
ExpandCall_Nothing(name, env, depth) == env

\* The stored body parsed at the place of the call (parser.rs:912-917).
ExpandCall(name, env, depth) ==
    LET sub == parse_code_with_context(env.ctx.functions[name], env, depth + 1)
    IN [sub EXCEPT !.commands = env.commands \o sub.commands]

\* try_parse_block (parser.rs:980-1083): the body is parsed once, with the
\* caller's context, and wrapped; define stores the body's text.
try_parse_block(line, env, depth) ==
    IF line.kind = "define"
      THEN [env EXCEPT !.ctx.functions = Put(@, line.name, line.body),
                       !.commands = Append(@, Comment)]
    ELSE LET sub == parse_code_with_context(line.body, env, depth + 1)
             cmd == CASE line.kind = "live_loop" -> Loop(sub.commands, TRUE)
                      [] line.kind = "times" -> TimesLoop(line.count, sub.commands)
                      [] line.kind = "with_fx" -> WithFx(line.fx_type, <<>>, sub.commands)
         IN [sub EXCEPT !.commands = Append(env.commands, cmd)]

\* One round of the while loop of parse_code_with_context (parser.rs:740-929).
parse_statement(line, env, depth) ==
    IF line.kind = "ring"
      THEN [env EXCEPT !.ctx.ring_values = Put(@, line.name, line.items),
                       !.ctx.ring_counters = Put(@, line.name, 0),
                       !.ticks = Append(@, AssignEvent(line.name))]
    ELSE IF line.kind \in BlockKinds THEN try_parse_block(line, env, depth)
    ELSE LET r == parse_line(line, env) IN
         IF r.cmd # <<>> THEN [r.env EXCEPT !.commands = @ \o r.cmd]
         ELSE IF FirstWord(line) \in DOMAIN r.env.ctx.functions
           THEN ExpandCall(FirstWord(line), r.env, depth)
         ELSE r.env

ParseFrom(lines, i, env, depth) ==
    IF i > Len(lines) \/ env.crashed THEN env
    ELSE ParseFrom(lines, i + 1, parse_statement(lines[i], env, depth), depth)

\* parse_code_with_context (parser.rs:734-930): a fresh `commands`, the
\* caller's context.  A call nested deeper than the stack has room for ends
\* the process.
parse_code_with_context(lines, env, depth) ==
    IF depth > MaxParseDepth
      THEN [env EXCEPT !.commands = <<>>, !.crashed = TRUE]
      ELSE ParseFrom(lines, 1, [env EXCEPT !.commands = <<>>], depth)

\* parse_code (parser.rs:699-702).
parse_code(lines) == parse_code_with_context(lines, ParseEnv(ParseContext_new), 1)

------------------------------------------------------------------------------
(* Parsing as a state machine: one step per top-level statement of a source. *)

\* Most statements after a source's opening lines.
MaxStatements == 2
\* The count written on an N.times line.
TimesCount == 3

NoParams == EmptyMap
RingItems == <<220, 440>>

\* Bodies of the procedure f.
ProcedureBodies ==
    { <<PlayLine(440, NoParams)>>,
      <<WithFxBlock("reverb", <<PlayLine(440, NoParams)>>)>>,
      <<PlayTick("r", NoParams), PlayTick("r", NoParams)>>,
      <<RingAssign("r", RingItems), PlayTick("r", NoParams)>>,
      <<Call("f")>>,
      <<Call("g")>> }

\* Statements of a source that uses a ring and calls procedures.
RingStatements ==
    { PlayTick("r", NoParams),
      Call("f"),
      Call("g"),
      Guarded(Call("f"), "if", FALSE),
      Guarded(Call("f"), "unless", FALSE),
      TimesBlock(TimesCount, <<PlayTick("r", NoParams)>>),
      LiveLoop(<<PlayTick("r", NoParams)>>),
      RingAssign("r", RingItems) }

\* Statements of a source that plays notes with and without parameters.
NoteStatements ==
    { PlayLine(440, NoParams),
      PlayLine(440, "amp" :> 8),
      PlayChord(165, NoParams),
      PlayPattern(<<220, 440>>, NoParams),
      PlayPatternTimed(<<220>>, <<1>>, "release" :> 10),
      SynthLine(440, NoParams),
      Guarded(PlayLine(440, NoParams), "if", FALSE),
      Guarded(PlayLine(440, NoParams), "if", TRUE),
      Guarded(PlayLine(440, NoParams), "unless", TRUE) }

DefaultLines ==
    { <<>>,
      <<UseSynthDefaults("amp" :> 3)>>,
      <<UseSynthDefaults(("amp" :> 3) @@ ("release" :> 20))>> }

Sources ==
    { <<RingAssign("r", RingItems), Define("f", b), Define("g", <<Call("f")>>)>> \o tail :
        b \in ProcedureBodies, tail \in SeqsUpTo(RingStatements, MaxStatements) }
    \cup { d \o tail : d \in DefaultLines, tail \in SeqsUpTo(NoteStatements, MaxStatements) }

ParseRest == UNCHANGED <<lowerVars, recVars, mixVars, extVars, log_messages, sc_nodes, use_sc,
                         sc_engine, chan, threads, sc_workers, now, main_pc, cur_run,
                         delivered, history, stop_failed, session_id>>

\* The parse about to read line i of the source.
ParseState(lines, i, env) ==
    [lines |-> lines, i |-> i, commands |-> env.commands, ctx |-> env.ctx,
     ticks |-> env.ticks, crashed |-> env.crashed]

EnvOf(st) == [commands |-> st.commands, ctx |-> st.ctx, ticks |-> st.ticks,
              crashed |-> st.crashed]

ParseInit ==
    /\ parsed = <<>> /\ pos = 1 /\ result = <<>> /\ time_offset = 0
    /\ current_bpm = EngineBpm /\ fx = FxDefault
    /\ DispatchIdle
    /\ RecorderNew
    /\ voices = <<>> /\ sample_playbacks = <<>> /\ last_retired = {}
    /\ is_playing = FALSE /\ frame_log = <<>> /\ playthrough = <<>>
    /\ log_messages = <<>> /\ sc_nodes = <<>>
    /\ ExtIdle
    /\ \E lines \in Sources : parse_st = ParseState(lines, 1, ParseEnv(ParseContext_new))

\* The statement at line i, whole: nested bodies and expanded calls included.
ParseStep ==
    /\ parse_st.i <= Len(parse_st.lines)
    /\ ~parse_st.crashed
    /\ parse_st' = ParseState(parse_st.lines, parse_st.i + 1,
                              parse_statement(parse_st.lines[parse_st.i], EnvOf(parse_st), 1))
    /\ ParseRest

ParseNext == ParseStep

SpecParse == ParseInit /\ [][ParseNext]_vars

\* The line a step has just read, and the commands it added.
LineRead == parse_st.lines[parse_st.i]
Added == SubSeq(parse_st'.commands, Len(parse_st.commands) + 1, Len(parse_st'.commands))

\* A step of the parse that reads a line.
ReadsLine == parse_st.i <= Len(parse_st.lines) /\ parse_st' # parse_st

\* The PlayNote frequencies, in order, of the events the commands lower to.
NotesLowered(cmds) ==
    LET timed == commands_to_audio(cmds, EngineBpm)
        notes == SelectSeq(timed, LAMBDA e : e.cmd.kind = "PlayNote")
    IN [k \in 1..Len(notes) |-> notes[k].cmd.arg[1]]

\* The element of the ring after v.
Following(values, v) ==
    LET at == CHOOSE k \in 1..Len(values) : values[k] = v
    IN values[(at % Len(values)) + 1]

\* Is the line a loop whose body is `play <base>.tick`?
TickLoop(line) ==
    /\ line.kind \in {"times", "live_loop"}
    /\ \E k \in 1..Len(line.body) : line.body[k].kind = "play_tick"

\* C24: a ring's cursor persists across the iterations of a loop: when the
\* body of a loop holds `r.tick`, each expanded iteration plays the element of
\* the ring that follows the one the iteration before it played.
C24_TickAdvancesPerIteration ==
    [][(ReadsLine /\ TickLoop(LineRead)) =>
          LET played == NotesLowered(Added)
              values == parse_st.ctx.ring_values["r"]
          IN /\ Len(played) >= 2
             /\ \A k \in 2..Len(played) : played[k] = Following(values, played[k - 1])]_vars

\* The .tick evaluations keyed by ticks[j].key that came before entry j,
\* counted from entry `from`.
TicksBefore(ticks, j, from) ==
    Cardinality({i \in from..(j - 1) : ticks[i].ev = "tick" /\ ticks[i].key = ticks[j].key})

\* The entry after the latest assignment of a ring to ticks[j].key before
\* entry j; 1 if there is none.
SinceAssign(ticks, j) ==
    LET as == {i \in 1..(j - 1) : ticks[i].ev = "assign" /\ ticks[i].key = ticks[j].key}
    IN IF as = {} THEN 1 ELSE (CHOOSE i \in as : \A k \in as : k <= i) + 1

\* Element n mod len of the list.
CyclicElement(values, n) == values[(n % Len(values)) + 1]

\* C25: successive .tick evaluations keyed by the same base expression return
\* the list's elements in cyclic order: the n-th evaluation (n = 0, 1, 2, ...)
\* returns element n mod len.
C25_TickCyclesFromFirstUse ==
    \A j \in 1..Len(parse_st.ticks) :
        parse_st.ticks[j].ev = "tick" =>
            parse_st.ticks[j].value =
                CyclicElement(parse_st.ticks[j].values, TicksBefore(parse_st.ticks, j, 1))

\* C25, amended: the evaluations are counted from the latest assignment of a
\* ring to the name, which puts the cursor back to 0: the n-th evaluation
\* since then returns element n mod len.
C25_TickCyclesSinceAssign ==
    \A j \in 1..Len(parse_st.ticks) :
        parse_st.ticks[j].ev = "tick" =>
            parse_st.ticks[j].value =
                CyclicElement(parse_st.ticks[j].values,
                              TicksBefore(parse_st.ticks, j, SinceAssign(parse_st.ticks, j)))

\* A cursor has gone once round its ring: an evaluation came after as many
\* evaluations as the ring has elements, with no assignment in between.
C25_Witness ==
    \E j \in 1..Len(parse_st.ticks) :
        /\ parse_st.ticks[j].ev = "tick"
        /\ TicksBefore(parse_st.ticks, j, SinceAssign(parse_st.ticks, j))
             >= Len(parse_st.ticks[j].values)
        /\ parse_st.ticks[j].value = parse_st.ticks[j].values[1]

\* A trailing guard that rules its statement out: `if` with a false
\* condition, `unless` with a true one.
RulesOut(line) ==
    /\ line.kind = "guarded"
    /\ \/ line.word = "if" /\ ~line.cond
       \/ line.word = "unless" /\ line.cond

\* C26: a statement with a trailing `if COND` / `unless COND` contributes
\* commands only if COND is true / false, whatever kind of statement it is,
\* a call of a defined procedure included.
C26_GuardRulesStatementOut ==
    [][(ReadsLine /\ RulesOut(LineRead)) => Added = <<>>]_vars

\* The lines of kind k in a body.
LinesOfKind(b, kinds) == Cardinality({k \in 1..Len(b) : b[k].kind \in kinds})

\* The events of kind k the commands lower to.
EventsOfKind(cmds, kind) ==
    Len(SelectSeq(commands_to_audio(cmds, EngineBpm), LAMBDA e : e.cmd.kind = kind))

\* A plain call of a stored procedure whose body calls no procedure.
PlainCall(line, ctx) ==
    /\ line.kind = "call"
    /\ line.name \in DOMAIN ctx.functions
    /\ LinesOfKind(ctx.functions[line.name], {"call", "guarded"}) = 0

C28_ParseAlwaysReturns == ~parse_st.crashed

\* The directives that emit PlayNote.
NoteDirectives == {"play", "play_tick", "synth", "play_chord", "play_pattern",
                   "play_pattern_timed"}

\* The PlayNote commands a directive's command holds: itself, or the notes
\* of the pattern it wraps.
NotesOf(cmd) ==
    IF cmd.op = "PlayNote" THEN {cmd}
    ELSE IF cmd.op = "TimesLoop"
      THEN {cmd.commands[k] : k \in {j \in 1..Len(cmd.commands) : cmd.commands[j].op = "PlayNote"}}
    ELSE {}

\* The value a parameter should take: the line's, else the stored default,
\* else the built-in one.
Expected(given, defaults, param, builtin) ==
    IF param \in DOMAIN given THEN given[param]
    ELSE IF param \in DOMAIN defaults THEN defaults[param]
    ELSE builtin

\* C29: for every directive that emits a PlayNote (play, synth, play chord,
\* play_pattern, play_pattern_timed), a parameter the line does not give takes
\* the value use_synth_defaults stored, and the built-in constant only when
\* no default is stored.
C29_DefaultsReachEveryDirective ==
    [][(ReadsLine /\ LineRead.kind \in NoteDirectives) =>
          /\ Added # <<>>
          /\ \A k \in 1..Len(Added) : \A n \in NotesOf(Added[k]) :
                /\ n.amplitude = Expected(LineRead.given, parse_st.ctx.synth_defaults,
                                          "amp", DefaultAmp)
                /\ n.release = Expected(LineRead.given, parse_st.ctx.synth_defaults,
                                        "release", DefaultRelease)]_vars

(***************************************************************************)
(* The external engine's node tree (sc_engine.rs).  ScEngine keeps the next *)
(* node id and the list of global effect nodes; the server keeps, for each  *)
(* group, the nodes in it, and obeys the messages the engine sends:         *)
(* /g_new, /s_new, /n_free, /g_freeAll.                                     *)
(***************************************************************************)

ADD_TO_HEAD == 0
ADD_TO_TAIL == 1
SOURCE_GROUP == 1000
FX_GROUP == 1001
MONITOR_GROUP == 1002
\* next_node_id: AtomicI32::new(2000)
FirstNodeId == 2000
\* Node ids handed out after the boot.
MaxNodeIds == 4

\* /g_new: an empty group, unless the id is taken.
GNew(srv, g) == IF g \in DOMAIN srv THEN srv ELSE (g :> <<>>) @@ srv

\* /s_new: the node at the head or the tail of the group; no node when the
\* group does not exist.
SNew(srv, id, add, g) ==
    IF g \notin DOMAIN srv THEN srv
    ELSE [srv EXCEPT ![g] = IF add = ADD_TO_HEAD THEN <<id>> \o @ ELSE Append(@, id)]

\* /n_free: the node leaves the tree.
NFree(srv, id) == [g \in DOMAIN srv |-> SelectSeq(srv[g], LAMBDA n : n # id)]

\* /g_freeAll: every node of the group is freed; the group stays.
GFreeAll(srv, g) == IF g \in DOMAIN srv THEN [srv EXCEPT ![g] = <<>>] ELSE srv

RECURSIVE FreeEach(_, _)
FreeEach(srv, ids) ==
    IF ids = <<>> THEN srv ELSE FreeEach(NFree(srv, Head(ids)), Tail(ids))

\* ScEngine::new (sc_engine.rs:153-170) with no server yet.
ScNew == [server |-> EmptyMap, active_fx_nodes |-> <<>>, next_node_id |-> FirstNodeId,
          is_playing |-> FALSE, last |-> [op |-> "new"]]

\* setup_groups (sc_engine.rs:790-824).
setup_groups(sc) ==
    [sc EXCEPT !.server = GNew(GNew(GNew(@, SOURCE_GROUP), FX_GROUP), MONITOR_GROUP)]

\* setup_scope (sc_engine.rs:827-869): the scope and meter nodes.
setup_scope(sc) ==
    [sc EXCEPT !.server = SNew(SNew(@, sc.next_node_id, ADD_TO_TAIL, MONITOR_GROUP),
                               sc.next_node_id + 1, ADD_TO_TAIL, MONITOR_GROUP),
               !.next_node_id = @ + 2]

\* boot (sc_engine.rs:173-216), steps 5 and 6.
boot(sc) == [setup_scope(setup_groups(sc)) EXCEPT !.last = [op |-> "boot"]]

\* May another n node ids be handed out?
IdsLeft(n) == sc_nodes.next_node_id + n <= FirstNodeId + 2 + MaxNodeIds

ScRest == UNCHANGED <<lowerVars, recVars, mixVars, extVars, log_messages, parse_st, use_sc,
                      sc_engine, chan, threads, sc_workers, now, main_pc, cur_run,
                      delivered, history, stop_failed, session_id>>

\* play_note (sc_engine.rs:304-344).
ScPlayNote ==
    /\ IdsLeft(1)
    /\ sc_nodes' = [sc_nodes EXCEPT
                      !.server = SNew(@, sc_nodes.next_node_id, ADD_TO_HEAD, SOURCE_GROUP),
                      !.next_node_id = @ + 1,
                      !.is_playing = TRUE,
                      !.last = [op |-> "play_note"]]
    /\ ScRest

\* create_fx_node (sc_engine.rs:583-620): a with_fx node at the tail of the
\* source group.
ScCreateFxNode ==
    /\ IdsLeft(1)
    /\ sc_nodes' = [sc_nodes EXCEPT
                      !.server = SNew(@, sc_nodes.next_node_id, ADD_TO_TAIL, SOURCE_GROUP),
                      !.next_node_id = @ + 1,
                      !.last = [op |-> "create_fx_node"]]
    /\ ScRest

\* free_node (sc_engine.rs:623-625).
ScFreeNode(id) ==
    /\ sc_nodes' = [sc_nodes EXCEPT !.server = NFree(@, id),
                                    !.last = [op |-> "free_node"]]
    /\ ScRest

\* The effects of set_global_effects in the order it creates their nodes.
EffectOrder == <<"lpf", "hpf", "distortion", "echo", "reverb">>
\* The effects a call may switch on.
EffectChoices == {"lpf", "reverb"}

\* The new_fx nodes: one /s_new at the tail of the fx group per effect on.
RECURSIVE AddEffects(_, _, _)
AddEffects(st, on, k) ==
    IF k > Len(EffectOrder) THEN st
    ELSE IF EffectOrder[k] \in on
      THEN AddEffects([server |-> SNew(st.server, st.next, ADD_TO_TAIL, FX_GROUP),
                       new_fx |-> Append(st.new_fx, st.next),
                       next |-> st.next + 1], on, k + 1)
    ELSE AddEffects(st, on, k + 1)

\* set_global_effects (sc_engine.rs:455-578): free the old nodes, create the
\* new ones, remember them.
ScSetGlobalEffects(on) ==
    /\ IdsLeft(Cardinality(on))
    /\ \E done \in {AddEffects([server |-> FreeEach(sc_nodes.server, sc_nodes.active_fx_nodes),
                                new_fx |-> <<>>, next |-> sc_nodes.next_node_id], on, 1)} :
         sc_nodes' = [sc_nodes EXCEPT !.server = done.server,
                                      !.active_fx_nodes = done.new_fx,
                                      !.next_node_id = done.next,
                                      !.last = [op |-> "set_global_effects"]]
    /\ ScRest

\* The effects switched on, in the order their nodes are created.
OnInOrder(on) == SelectSeq(EffectOrder, LAMBDA e : e \in on)

\* set_global_effects whose k-th /s_new send fails (sc_engine.rs:455-578):
\* the old nodes are freed and forgotten, the nodes before the k-th are
\* created, and the `?` returns before `*self.active_fx_nodes.lock() = new_fx`.
ScSetGlobalEffectsSendFails(on, k) ==
    /\ IdsLeft(k)
    /\ \E done \in {AddEffects([server |-> FreeEach(sc_nodes.server, sc_nodes.active_fx_nodes),
                                new_fx |-> <<>>, next |-> sc_nodes.next_node_id],
                               {OnInOrder(on)[j] : j \in 1..(k - 1)}, 1)} :
         sc_nodes' = [sc_nodes EXCEPT !.server = done.server,
                                      !.active_fx_nodes = <<>>,
                                      !.next_node_id = done.next + 1,
                                      !.last = [op |-> "set_global_effects_err"]]
    /\ ScRest

\* A stop that frees the source group only.
StopGroups_SourceOnly == <<SOURCE_GROUP>>

\* The groups stop_all sends /g_freeAll for (sc_engine.rs:426-435).
StopGroups == <<SOURCE_GROUP, FX_GROUP>>

RECURSIVE FreeGroups(_, _)
FreeGroups(srv, gs) ==
    IF gs = <<>> THEN srv ELSE FreeGroups(GFreeAll(srv, Head(gs)), Tail(gs))

\* stop_all (sc_engine.rs:424-441).  `last` records what the call found.
ScStopAll ==
    /\ sc_nodes' = [sc_nodes EXCEPT
                      !.server = FreeGroups(@, StopGroups),
                      !.active_fx_nodes = <<>>,
                      !.is_playing = FALSE,
                      !.last = [op |-> "stop_all",
                                had_source |-> Len(sc_nodes.server[SOURCE_GROUP]),
                                had_fx |-> Len(sc_nodes.server[FX_GROUP]),
                                had_tracked |-> Len(sc_nodes.active_fx_nodes)]]
    /\ ScRest

\* The engine as lib.rs holds it: constructed and booted (lib.rs:1673-1680).
ScInit ==
    /\ parsed = <<>> /\ pos = 1 /\ result = <<>> /\ time_offset = 0
    /\ current_bpm = EngineBpm /\ fx = FxDefault
    /\ DispatchIdle
    /\ RecorderNew
    /\ voices = <<>> /\ sample_playbacks = <<>> /\ last_retired = {}
    /\ is_playing = FALSE /\ frame_log = <<>> /\ playthrough = <<>>
    /\ log_messages = <<>> /\ parse_st = <<>>
    /\ ExtIdle
    /\ sc_nodes = boot(ScNew)

ScNext ==
    \/ ScPlayNote
    \/ ScCreateFxNode
    \/ \E g \in {SOURCE_GROUP, FX_GROUP} : \E k \in 1..Len(sc_nodes.server[g]) :
          ScFreeNode(sc_nodes.server[g][k])
    \/ \E on \in SUBSET EffectChoices : ScSetGlobalEffects(on)
    \/ \E on \in SUBSET EffectChoices : \E k \in 1..Cardinality(on) :
          ScSetGlobalEffectsSendFails(on, k)
    \/ ScStopAll

SpecSc == ScInit /\ [][ScNext]_vars

C31_GlobalFxNodesTracked ==
    \A k \in 1..Len(sc_nodes.server[FX_GROUP]) :
        \E j \in 1..Len(sc_nodes.active_fx_nodes) :
            sc_nodes.active_fx_nodes[j] = sc_nodes.server[FX_GROUP][k]

(***************************************************************************)
(* The life of ScEngine values (sc_engine.rs:104-238, 640-689, 1024-1028)  *)
(* and of AppState.sc_engine / use_sc (lib.rs:1504-1603, 1673-1691).  All  *)
(* engines talk to the one port SC_PORT, so at most one scsynth listens;   *)
(* `server` is 0 or the id of the engine that spawned the process.         *)
(***************************************************************************)

\* ScEngine values made in one run of the application.
MaxEngines == 5

\* Calls of shutdown one engine sees.
MaxShutdowns == 2

\* A scsynth started outside the application (sc_engine.rs:641-645 reuses it).
External == MaxEngines + 1

\* ScEngine::new: no child process, not booted.
EngineNew == [is_booted |-> FALSE, child |-> 0, alive |-> TRUE, shutdowns |-> 0]

\* What a boot can come to: done; the spawn of scsynth fails; a later step
\* (the wait, the SynthDefs, the groups) fails.
BootOutcomes == {"ok", "fail_spawn", "fail_later"}

\* boot (sc_engine.rs:173-216) with start_scsynth (640-689): an engine that
\* gets a /status.reply attaches to the server that is there and spawns none.
host_boot(h, e, outcome) ==
    IF h.engines[e].is_booted THEN h
    ELSE LET attach  == h.server # 0
             spawned == ~attach /\ outcome # "fail_spawn"
             h1 == IF spawned
                     THEN [h EXCEPT !.server = e, !.engines[e].child = e]
                     ELSE h
         IN IF outcome = "ok" THEN [h1 EXCEPT !.engines[e].is_booted = TRUE] ELSE h1

\* Does the /quit of shutdown reach a server?  It is sent to SC_PORT whatever
\* the engine's state (sc_engine.rs:228).
QuitReaches(h, e) == h.server # 0

\* shutdown (sc_engine.rs:224-238): /quit to the port, kill the own child,
\* forget it, is_booted = false.
host_shutdown(h, e) ==
    [h EXCEPT !.server = IF QuitReaches(h, e) \/ h.engines[e].child = @ THEN 0 ELSE @,
              !.engines[e].child = 0,
              !.engines[e].is_booted = FALSE,
              !.engines[e].shutdowns = @ + 1]

\* Drop for ScEngine (sc_engine.rs:1024-1028).
host_drop(h, e) == [host_shutdown(h, e) EXCEPT !.engines[e].alive = FALSE]

\* What a shutdown or drop of e changes besides its own count.
Footprint(h, e) == <<h.server, h.engines[e].child, h.engines[e].is_booted>>

HostRest == UNCHANGED <<lowerVars, dispatchVars, recVars, mixVars, log_messages, parse_st,
                        sc_nodes, lock_st, osc_st, spread_st>>

\* The engine made by ScEngine::new in this step.
NewId == sc_host.made + 1

\* ScEngine::new, boot, and what lib.rs does with the outcome, at startup
\* (lib.rs:1673-1691) and in init_supercollider (1504-1551): a booted engine
\* replaces the one in the slot, which is dropped, and use_sc is set; an
\* engine that failed to boot is dropped.
MakeEngine(op, outcome) ==
    /\ sc_host.made < MaxEngines
    /\ outcome = "fail_spawn" => sc_host.server = 0
    /\ \E h0 \in {[sc_host EXCEPT !.engines = (NewId :> EngineNew) @@ @, !.made = NewId]} :
       \E h1 \in {host_boot(h0, NewId, outcome)} :
         IF outcome = "ok"
           THEN \E old \in {sc_host.slot} :
                \E h2 \in {IF old # 0 THEN host_drop(h1, old) ELSE h1} :
                  sc_host' = [h2 EXCEPT !.slot = NewId, !.use_sc = TRUE, !.started = TRUE,
                                        !.last = [op |-> op, ok |-> TRUE, replaced |-> old # 0,
                                                  again |-> old # 0 /\ h1.engines[old].shutdowns > 0,
                                                  changed |-> old # 0 /\ Footprint(h2, old) # Footprint(h1, old)]]
           ELSE sc_host' = [host_drop(h1, NewId) EXCEPT
                              !.started = TRUE,
                              !.last = [op |-> op, ok |-> FALSE, replaced |-> FALSE,
                                        again |-> FALSE, changed |-> FALSE]]
    /\ HostRest

\* run(): the engine of the new application (lib.rs:1673-1691).
AppStartup(outcome) ==
    /\ ~sc_host.started
    /\ MakeEngine("startup", outcome)

\* run() when ScEngine::new finds no SuperCollider (lib.rs:1687-1690).
AppStartupNoSc ==
    /\ ~sc_host.started
    /\ sc_host' = [sc_host EXCEPT !.started = TRUE]
    /\ HostRest

\* init_supercollider (lib.rs:1504-1551).
init_supercollider(outcome) ==
    /\ sc_host.started
    /\ MakeEngine("init_supercollider", outcome)

\* A toggle that takes the caller's word.
ToggleTo_Unchecked(h, enabled) == enabled

\* The use_sc that toggle_sc_engine stores (lib.rs:1576-1603): true needs a
\* booted engine in the slot, else the call fails and the flag stays.
ToggleTo(h, enabled) ==
    IF enabled
      THEN IF h.slot # 0 /\ h.engines[h.slot].is_booted THEN TRUE ELSE h.use_sc
      ELSE FALSE

toggle_sc_engine(enabled) ==
    /\ sc_host.started
    /\ sc_host' = [sc_host EXCEPT !.use_sc = ToggleTo(sc_host, enabled),
                                  !.last = [op |-> "toggle_sc_engine", ok |-> TRUE,
                                            replaced |-> FALSE, again |-> FALSE,
                                            changed |-> FALSE]]
    /\ HostRest

\* A call of the public shutdown on the engine in the slot; Drop will call it
\* once more.
ShutdownCall ==
    /\ sc_host.started
    /\ sc_host.slot # 0
    /\ sc_host.engines[sc_host.slot].shutdowns < MaxShutdowns
    /\ \E e \in {sc_host.slot} : \E h \in {host_shutdown(sc_host, e)} :
         sc_host' = [h EXCEPT !.last = [op |-> "shutdown", ok |-> TRUE, replaced |-> FALSE,
                                        again |-> sc_host.engines[e].shutdowns > 0,
                                        changed |-> Footprint(h, e) # Footprint(sc_host, e)]]
    /\ HostRest

\* The application ends: the engine in the slot is dropped.
AppExit ==
    /\ sc_host.started
    /\ sc_host.slot # 0
    /\ \E e \in {sc_host.slot} : \E h \in {host_drop(sc_host, e)} :
         sc_host' = [h EXCEPT !.slot = 0, !.use_sc = FALSE,
                              !.last = [op |-> "drop", ok |-> TRUE, replaced |-> FALSE,
                                        again |-> sc_host.engines[e].shutdowns > 0,
                                        changed |-> Footprint(h, e) # Footprint(sc_host, e)]]
    /\ HostRest

HostInit ==
    /\ parsed = <<>> /\ pos = 1 /\ result = <<>> /\ time_offset = 0
    /\ current_bpm = EngineBpm /\ fx = FxDefault
    /\ DispatchIdle
    /\ RecorderNew
    /\ voices = <<>> /\ sample_playbacks = <<>> /\ last_retired = {}
    /\ is_playing = FALSE /\ frame_log = <<>> /\ playthrough = <<>>
    /\ log_messages = <<>> /\ parse_st = <<>> /\ sc_nodes = <<>>
    /\ lock_st = <<>> /\ osc_st = <<>> /\ spread_st = <<>>
    /\ \E running \in {0, External} :
       sc_host = [engines |-> EmptyMap, server |-> running, slot |-> 0, use_sc |-> FALSE,
                     made |-> 0, started |-> FALSE,
                     last |-> [op |-> "none", ok |-> TRUE, replaced |-> FALSE,
                               again |-> FALSE, changed |-> FALSE]]

\* The commands the application itself runs.
HostNext ==
    \/ \E o \in BootOutcomes : AppStartup(o)
    \/ AppStartupNoSc
    \/ \E o \in BootOutcomes : init_supercollider(o)
    \/ \E enabled \in BOOLEAN : toggle_sc_engine(enabled)

SpecHost == HostInit /\ [][HostNext]_vars

\* The same with callers of ScEngine's public shutdown and the end of the
\* application.
HostApiNext ==
    \/ HostNext
    \/ ShutdownCall
    \/ AppExit

SpecHostApi == HostInit /\ [][HostApiNext]_vars

C36_NewEngineKeepsItsServer ==
    (sc_host.last.op = "init_supercollider" /\ sc_host.last.ok /\ sc_host.last.replaced)
        => sc_host.server # 0

\* C38: use_sc is true only if the slot holds an engine that has booted.
C38_UseScNeedsBootedEngine ==
    sc_host.use_sc => (sc_host.slot # 0 /\ sc_host.engines[sc_host.slot].is_booted)

\* use_sc survives an init_supercollider whose boot failed.
C38_Witness ==
    /\ sc_host.last.op = "init_supercollider"
    /\ ~sc_host.last.ok
    /\ sc_host.use_sc
    /\ sc_host.slot # 0

(***************************************************************************)
(* spread(pulses, steps): euclidean_rhythm (parser.rs:555-570).            *)
(***************************************************************************)

\* The largest pulse and step counts tried.
MaxPulses == 9
MaxSteps == 9

\* A bucket that is emptied when it crosses.
Carry_Reset(bucket, steps) == 0

\* What stays in the bucket after it crossed `steps` (parser.rs:565).
Carry(bucket, steps) == bucket - steps

RECURSIVE FillPattern(_, _, _, _)
\* The loop of euclidean_rhythm from step i on (parser.rs:562-568).
FillPattern(pulses, steps, i, bucket) ==
    IF i = steps THEN <<>>
    ELSE LET b == bucket + pulses
         IN IF b >= steps
              THEN <<TRUE>> \o FillPattern(pulses, steps, i + 1, Carry(b, steps))
              ELSE <<FALSE>> \o FillPattern(pulses, steps, i + 1, b)

euclidean_rhythm(pulses, steps) ==
    IF steps = 0 THEN <<>>
    ELSE IF pulses >= steps THEN [i \in 1..steps |-> TRUE]
    ELSE IF pulses = 0 THEN [i \in 1..steps |-> FALSE]
    ELSE FillPattern(pulses, steps, 0, 0)

\* The trues of a pattern.
Trues(pattern) == Cardinality({i \in 1..Len(pattern) : pattern[i]})

SpreadRest == UNCHANGED <<lowerVars, dispatchVars, recVars, mixVars, log_messages, parse_st,
                          sc_nodes, sc_host, lock_st, osc_st>>

\* resolve_to_list meets spread(pulses, steps) (parser.rs:435-445).
SpreadCall ==
    /\ ~spread_st.done
    /\ spread_st' = [spread_st EXCEPT !.done = TRUE,
                                      !.pattern = euclidean_rhythm(spread_st.pulses, spread_st.steps)]
    /\ SpreadRest

SpreadInit ==
    /\ parsed = <<>> /\ pos = 1 /\ result = <<>> /\ time_offset = 0
    /\ current_bpm = EngineBpm /\ fx = FxDefault
    /\ DispatchIdle
    /\ RecorderNew
    /\ voices = <<>> /\ sample_playbacks = <<>> /\ last_retired = {}
    /\ is_playing = FALSE /\ frame_log = <<>> /\ playthrough = <<>>
    /\ log_messages = <<>> /\ parse_st = <<>> /\ sc_nodes = <<>>
    /\ sc_host = <<>> /\ lock_st = <<>> /\ osc_st = <<>>
    /\ \E pulses \in 0..MaxPulses : \E steps \in 0..MaxSteps :
         spread_st = [pulses |-> pulses, steps |-> steps, done |-> FALSE, pattern |-> <<>>]

SpecSpread == SpreadInit /\ [][SpreadCall]_vars

\* The smaller of two counts.
Least(a, b) == IF a < b THEN a ELSE b

\* C33, as stated: spread(p, s) is a list of s booleans with exactly p trues.
C33_SpreadHasPTrues ==
    spread_st.done =>
        /\ Len(spread_st.pattern) = spread_st.steps
        /\ Trues(spread_st.pattern) = spread_st.pulses

\* C33, amended: spread(p, s) is a list of s booleans with exactly
\* min(p, s) trues.
C33_SpreadHasLeastTrues ==
    spread_st.done =>
        /\ Len(spread_st.pattern) = spread_st.steps
        /\ Trues(spread_st.pattern) = Least(spread_st.pulses, spread_st.steps)

\* spread(3, 8): the loop ran, and the pattern has trues and falses.
C33_Witness ==
    /\ spread_st.done
    /\ spread_st.pulses = 3 /\ spread_st.steps = 8
    /\ Trues(spread_st.pattern) = 3

\* C34: a run_code call that returned an error has delivered none of its
\* events to an engine, and none is delivered later by a thread it spawned.
C34_FailedRunDeliversNothing ==
    \A k \in 1..Len(delivered) :
        (IsRunEvent(delivered[k]) /\ delivered[k].run <= Len(history))
            => history[delivered[k].run].outcome \notin {"send_err", "preload_err"}

(***************************************************************************)
(* One sample playback at any rate the parser can hand over                *)
(* (parser.rs:1881-1917: `rate:` is any f32, times 2^(rpitch/12)), mixed   *)
(* frame by frame until the callback drops it (engine.rs:244-275, 307).    *)
(* Rates and positions are in half samples, as in the mixer above.         *)
(***************************************************************************)

\* Longest buffer played, in samples.
MaxClipLen == 6
\* Fastest rate, forwards and backwards, in half samples per frame.
MaxHalfRate == 3
\* How far below 0 a position is followed: every position below 0 reads
\* index 0 (PosIdx), so the frames after that repeat the same test.
MaxBackward == 4

\* A playback whose position is kept no further below 0 than MaxBackward.
Followed(sp) ==
    [sp EXCEPT !.position = IF @ < 0 - MaxBackward THEN 0 - MaxBackward ELSE @]

RateRest == UNCHANGED <<lowerVars, dispatchVars, recVars, appVars, voices, last_retired,
                        frame_log, playthrough>>

\* One output frame of the callback with the playbacks it holds, the flag it
\* stores and the retain at its end (engine.rs:244-275, 301, 307).
RateCallback ==
    /\ sample_playbacks # <<>>
    /\ \E ps \in {MixFrames(<<>>, sample_playbacks, 1).sample_playbacks} :
         /\ sample_playbacks' = SelectSeq([k \in 1..Len(ps) |-> Followed(ps[k])], NotDone)
         /\ is_playing' = IsPlayingFlag(<<>>, ps)
    /\ RateRest

\* The callback has taken a PlaySample command (engine.rs:169-188).
RateInit ==
    /\ parsed = <<>> /\ pos = 1 /\ result = <<>> /\ time_offset = 0
    /\ current_bpm = EngineBpm /\ fx = FxDefault
    /\ DispatchIdle
    /\ RecorderNew
    /\ voices = <<>> /\ last_retired = {}
    /\ is_playing = FALSE /\ frame_log = <<>> /\ playthrough = <<>>
    /\ log_messages = <<>> /\ parse_st = <<>> /\ sc_nodes = <<>>
    /\ ExtIdle
    /\ \E len \in 0..MaxClipLen, rate \in (0 - MaxHalfRate)..MaxHalfRate :
           sample_playbacks = <<NewPlayback([len |-> len, rate |-> rate])>>

\* The output stream keeps calling the callback.
SpecRate == RateInit /\ [][RateCallback]_vars /\ WF_vars(RateCallback)

\* C35: every sample playback started by PlaySample is at last marked done
\* and removed, whatever its rate and its buffer's length.
C35_EveryPlaybackEnds == <>(sample_playbacks = <<>>)

(***************************************************************************)
(* The parking_lot mutexes that run_code, stop_audio, the scheduler        *)
(* threads, get_waveform and the output callback take, in the order the    *)
(* code takes and releases them.  A thread's program is its sequence of    *)
(* lock and unlock steps; a lock step is enabled only while the mutex is   *)
(* free (the mutexes are not re-entrant).                                  *)
(***************************************************************************)

Locks == {"session_id", "sc_engine", "loaded_samples", "log_messages", "engine_state",
          "sc_state", "active_fx_nodes", "loaded_buffers"}

Acq(l) == <<"acq", l>>
Rel(l) == <<"rel", l>>

\* One statement that locks, uses and unlocks.
Touch(l) == <<Acq(l), Rel(l)>>

\* ScEngine::stop_all (sc_engine.rs:424-441).
StopAllLocks == Touch("active_fx_nodes") \o Touch("sc_state")

\* ScEngine::load_sample_buffer (sc_engine.rs:381-421).
LoadSampleBufferLocks == Touch("loaded_buffers") \o Touch("loaded_buffers")

\* ScEngine::play_note / play_sample_buffer (sc_engine.rs:304-378).
PlayLocks == Touch("sc_state") \o Touch("sc_state")

\* ScEngine::set_global_effects (sc_engine.rs:455-578).
SetGlobalEffectsLocks == Touch("active_fx_nodes") \o Touch("active_fx_nodes")

\* run_code on the SuperCollider path (lib.rs:184-188, 209-455, 527-537).
RunCodeScProg ==
    Touch("session_id")
      \o <<Acq("sc_engine")>> \o StopAllLocks \o <<Rel("sc_engine")>>
      \o <<Acq("sc_engine")>> \o LoadSampleBufferLocks \o Touch("loaded_buffers")
      \o <<Rel("sc_engine")>>
      \o Touch("log_messages")

\* run_code on the SuperCollider path when the preload fails (lib.rs:233-239).
RunCodeScErrProg ==
    Touch("session_id")
      \o <<Acq("sc_engine")>> \o StopAllLocks \o <<Rel("sc_engine")>>
      \o <<Acq("sc_engine")>> \o Touch("loaded_buffers")
      \o <<Acq("log_messages"), Rel("log_messages"), Rel("sc_engine")>>

\* run_code on the cpal path (lib.rs:184-188, 456-537, 553-600, 616-667).
RunCodeCpalProg ==
    Touch("session_id") \o Touch("loaded_samples") \o Touch("loaded_samples")
      \o Touch("log_messages")

\* stop_audio (lib.rs:849-860).
StopAudioProg ==
    <<Acq("sc_engine")>> \o StopAllLocks \o <<Rel("sc_engine")>> \o Touch("session_id")

\* A get_waveform that reads the engine's state before it takes the slot.
GetWaveformScProg_StateFirst ==
    <<Acq("sc_state"), Acq("sc_engine"), Rel("sc_engine"), Rel("sc_state")>>

\* get_waveform with use_sc (lib.rs:862-868; sc_engine.rs:444-446, 915-940).
GetWaveformScProg ==
    <<Acq("sc_engine")>> \o Touch("sc_state") \o Touch("sc_state") \o <<Rel("sc_engine")>>

\* get_waveform without (lib.rs:870; engine.rs:342-345).
GetWaveformCpalProg == Touch("engine_state")

\* One event of the SuperCollider scheduler thread (lib.rs:375-443); `ev` is
\* the locks of the ScEngine call the event makes.
ScWorkerProg(ev) ==
    Touch("session_id") \o Touch("session_id")
      \o <<Acq("sc_engine")>> \o ev \o <<Rel("sc_engine")>>

\* A thread of the cpal path (lib.rs:505-513, 651-659).
CpalThreadProg == Touch("session_id")

\* One frame of the output callback (engine.rs:296-302).
CallbackProg == Touch("engine_state")

\* The thread of the commands run_code and stop_audio, the thread of the
\* front end's get_waveform poll, the two kinds of scheduler thread and the
\* output callback.
LockThreads == {"cmd", "poll", "sc_worker", "cpal_thread", "callback"}

\* What each thread may run.
ProgramsOf(t) ==
    CASE t = "cmd" ->
           {RunCodeScProg, RunCodeScErrProg, RunCodeCpalProg, StopAudioProg}
      [] t = "poll" -> {GetWaveformScProg, GetWaveformCpalProg}
      [] t = "sc_worker" ->
           {ScWorkerProg(PlayLocks), ScWorkerProg(SetGlobalEffectsLocks),
            ScWorkerProg(Touch("sc_state")), ScWorkerProg(StopAllLocks)}
      [] t = "cpal_thread" -> {CpalThreadProg}
      [] OTHER -> {CallbackProg}

LockRest == UNCHANGED <<lowerVars, dispatchVars, recVars, mixVars, log_messages, parse_st,
                        sc_nodes, sc_host, osc_st, spread_st>>

\* The locks thread t holds.
HeldBy(t) == {l \in Locks : lock_st.held[l] = t}

\* The step thread t stands before, <<>> when it runs nothing.
NextStep(t) ==
    IF lock_st.pc[t].prog = <<>> THEN <<>>
    ELSE lock_st.pc[t].prog[lock_st.pc[t].i]

\* Thread t after its step: back to rest after the last one.
Advance(pc) ==
    IF pc.i = Len(pc.prog) THEN [prog |-> <<>>, i |-> 1] ELSE [pc EXCEPT !.i = @ + 1]

\* A command is called, or a thread starts its next round.
ThreadStart(t, prog) ==
    /\ NextStep(t) = <<>>
    /\ lock_st' = [lock_st EXCEPT !.pc[t] = [prog |-> prog, i |-> 1]]
    /\ LockRest

\* mutex.lock(): waits while the mutex is held, by whomever.
LockAcquire(t) ==
    /\ NextStep(t) # <<>>
    /\ NextStep(t)[1] = "acq"
    /\ \E l \in {NextStep(t)[2]} :
         /\ lock_st.held[l] = "free"
         /\ lock_st' = [lock_st EXCEPT !.held[l] = t,
                                       !.pc[t] = Advance(@),
                                       !.order = @ \cup {<<h, l>> : h \in HeldBy(t)}]
    /\ LockRest

\* The guard goes out of scope.
LockRelease(t) ==
    /\ NextStep(t) # <<>>
    /\ NextStep(t)[1] = "rel"
    /\ lock_st' = [lock_st EXCEPT !.held[NextStep(t)[2]] = "free", !.pc[t] = Advance(@)]
    /\ LockRest

LockInit ==
    /\ parsed = <<>> /\ pos = 1 /\ result = <<>> /\ time_offset = 0
    /\ current_bpm = EngineBpm /\ fx = FxDefault
    /\ DispatchIdle
    /\ RecorderNew
    /\ voices = <<>> /\ sample_playbacks = <<>> /\ last_retired = {}
    /\ is_playing = FALSE /\ frame_log = <<>> /\ playthrough = <<>>
    /\ log_messages = <<>> /\ parse_st = <<>> /\ sc_nodes = <<>>
    /\ sc_host = <<>> /\ osc_st = <<>> /\ spread_st = <<>>
    /\ lock_st = [pc    |-> [t \in LockThreads |-> [prog |-> <<>>, i |-> 1]],
                  held  |-> [l \in Locks |-> "free"],
                  order |-> {}]

LockNext ==
    \E t \in LockThreads :
        \/ \E prog \in ProgramsOf(t) : ThreadStart(t, prog)
        \/ LockAcquire(t)
        \/ LockRelease(t)

SpecLock == LockInit /\ [][LockNext]_vars

\* Thread t waits for a mutex that a thread of S holds.
WaitsWithin(t, S) ==
    /\ NextStep(t) # <<>>
    /\ NextStep(t)[1] = "acq"
    /\ lock_st.held[NextStep(t)[2]] \in S

\* The locks reached from l along the order in which locks were taken while
\* another was held, in at most n steps.
RECURSIVE TakenAfter(_, _)
TakenAfter(ls, n) ==
    IF n = 0 THEN ls
    ELSE TakenAfter(ls \cup {e[2] : e \in {d \in lock_st.order : d[1] \in ls}}, n - 1)

\* C37: no set of threads waits for one another, and the order in which the
\* locks are taken while another is held has no cycle.
C37_NoCyclicLockOrder ==
    /\ \A S \in SUBSET LockThreads : S # {} => \E t \in S : ~WaitsWithin(t, S)
    /\ \A e \in lock_st.order : e[1] \notin TakenAfter({e[2]}, Cardinality(Locks))

\* The scheduler thread waits for sc_engine while a command holds it and a
\* lock of the engine inside it.
C37_Witness ==
    /\ WaitsWithin("sc_worker", {"cmd"})
    /\ NextStep("sc_worker")[2] = "sc_engine"
    /\ lock_st.held["sc_state"] = "cmd"

(***************************************************************************)
(* The replies of scsynth waiting in the engine's socket and               *)
(* load_sample_buffer's wait for one of them (sc_engine.rs:381-421,        *)
(* 978-1021).  A reply carries its address, the command it answers and,    *)
(* for a /b_allocRead, the load it belongs to (0 for any other command).   *)
(***************************************************************************)

\* Replies waiting in the socket at one time.
MaxInbox == 3
\* Paths loaded.
MaxLoads == 3

OscReply(addr, cmd, load) == [addr |-> addr, cmd |-> cmd, load |-> load]

\* The /done of setup_scope's /b_alloc, which boot does not wait for
\* (sc_engine.rs:829-839).
ScopeAllocDone == OscReply("/done", "/b_alloc", 0)

\* Does this message end wait_for_done?  Any /done and any /fail does
\* (sc_engine.rs:983-1005).
Decides(msg, cmd_name) == msg.addr \in {"/done", "/fail"}

\* wait_for_done(cmd_name) over the replies that arrive within the timeout,
\* in their order: messages that do not decide are read and dropped.
RECURSIVE wait_for_done(_, _)
wait_for_done(inbox, cmd_name) ==
    IF inbox = <<>> THEN [result |-> "Ok", timeout |-> TRUE, by |-> 0, rest |-> <<>>]
    ELSE IF Decides(inbox[1], cmd_name)
      THEN [result  |-> IF inbox[1].addr = "/done" THEN "Ok" ELSE "Err",
            timeout |-> FALSE, by |-> inbox[1].load, rest |-> Tail(inbox)]
      ELSE wait_for_done(Tail(inbox), cmd_name)

OscRest == UNCHANGED <<lowerVars, dispatchVars, recVars, mixVars, log_messages, parse_st,
                       sc_nodes, sc_host, lock_st, spread_st>>

\* What the server does with a /b_allocRead: answers /done or /fail within
\* the 5 s, or after them.
ServerReplies == {"done", "fail", "late_done", "late_fail"}

ReplyFor(id, reply) ==
    OscReply(IF reply \in {"done", "late_done"} THEN "/done" ELSE "/fail", "/b_allocRead", id)

\* load_sample_buffer of a path not loaded before (sc_engine.rs:381-421).
OscLoadSampleBuffer(reply) ==
    /\ osc_st.loads < MaxLoads
    /\ \E id \in {osc_st.loads + 1} :
       \E w \in {wait_for_done(osc_st.inbox \o (IF reply \in {"done", "fail"}
                                                  THEN <<ReplyFor(id, reply)>> ELSE <<>>),
                               "/b_allocRead")} :
         osc_st' = [osc_st EXCEPT
                      !.loads = id,
                      !.inbox = w.rest \o (IF reply \in {"late_done", "late_fail"}
                                             THEN <<ReplyFor(id, reply)>> ELSE <<>>),
                      !.loaded_buffers = IF w.result = "Ok" THEN @ \cup {id} ELSE @,
                      !.last = [op |-> "load_sample_buffer", id |-> id, result |-> w.result,
                                timeout |-> w.timeout, by |-> w.by, reply |-> reply]]
    /\ OscRest

\* A reply to a command nobody waits for arrives: the /fail of an /n_free
\* or /s_new (sc_engine.rs:471-473, 623-625), a /sonic/meter.
OscArrives(msg) ==
    /\ Len(osc_st.inbox) < MaxInbox
    /\ osc_st' = [osc_st EXCEPT !.inbox = Append(@, msg),
                                !.last = [op |-> "arrives", id |-> 0, result |-> "Ok",
                                          timeout |-> FALSE, by |-> 0, reply |-> "none"]]
    /\ OscRest

\* process_incoming reads the socket empty (sc_engine.rs:915-940).
OscProcessIncoming ==
    /\ osc_st.inbox # <<>>
    /\ osc_st' = [osc_st EXCEPT !.inbox = <<>>,
                                !.last = [op |-> "process_incoming", id |-> 0, result |-> "Ok",
                                          timeout |-> FALSE, by |-> 0, reply |-> "none"]]
    /\ OscRest

\* The engine after boot (sc_engine.rs:173-216).
OscInit ==
    /\ parsed = <<>> /\ pos = 1 /\ result = <<>> /\ time_offset = 0
    /\ current_bpm = EngineBpm /\ fx = FxDefault
    /\ DispatchIdle
    /\ RecorderNew
    /\ voices = <<>> /\ sample_playbacks = <<>> /\ last_retired = {}
    /\ is_playing = FALSE /\ frame_log = <<>> /\ playthrough = <<>>
    /\ log_messages = <<>> /\ parse_st = <<>> /\ sc_nodes = <<>>
    /\ sc_host = <<>> /\ lock_st = <<>> /\ spread_st = <<>>
    /\ osc_st = [inbox |-> <<ScopeAllocDone>>, loads |-> 0, loaded_buffers |-> {},
                 last |-> [op |-> "boot", id |-> 0, result |-> "Ok", timeout |-> FALSE,
                           by |-> 0, reply |-> "none"]]

OscNext ==
    \/ \E reply \in ServerReplies : OscLoadSampleBuffer(reply)
    \/ \E msg \in {OscReply("/fail", "/n_free", 0), OscReply("/sonic/meter", "", 0)} :
           OscArrives(msg)
    \/ OscProcessIncoming

SpecOsc == OscInit /\ [][OscNext]_vars

\* C39: a load is decided by the reply to its own /b_allocRead or by the
\* timeout, never by a /done or /fail of an earlier command.
C39_LoadDecidedByOwnReply ==
    osc_st.last.op = "load_sample_buffer" =>
        (osc_st.last.timeout \/ osc_st.last.by = osc_st.last.id)

====
